---------------------------- MODULE Spec2Model ----------------------------
(***************************************************************************)
(* A model of the table scripts of skill_v1/scripts:                       *)
(*   handle_tables.py       analyze_table_structure,                       *)
(*                          extract_table_to_dataframe,                    *)
(*                          reconstruct_table_markdown,                    *)
(*                          extract_nested_tables,                         *)
(*                          extract_table_with_headers                     *)
(*   get_pdf_table_cell.py  get_pdf_cell                                   *)
(*   get_spreadsheet_cell.py get_spreadsheet_cell                          *)
(*   parse_document.py      handle_parsing_errors,                         *)
(*                          parse_large_file_with_jobs                     *)
(*   split_documents.py     handle_split_errors                            *)
(*                                                                         *)
(* Every function is run on a parse response (chunks, grounding) that the  *)
(* initial state draws from a bounded set.  A Python dict is a sequence of *)
(* entries in insertion order, which is the order its iteration follows.   *)
(*                                                                         *)
(* Box coordinates are integers in units of 1/6400 of the page, so that    *)
(* the tolerance 0.01 is the integer Tol = 64.  The coordinates drawn are  *)
(* multiples of 25 units (1/256 of the page): such values are exact        *)
(* binary fractions and never lie within rounding distance of the          *)
(* tolerance boundary, so the floating-point comparisons of the code and   *)
(* the integer comparisons made here agree.                                *)
(***************************************************************************)
EXTENDS Integers, Sequences, FiniteSets, TLC

VARIABLES
    fn,             \* the function that runs
    pc,             \* its position
    chunks,         \* response.chunks
    grounding,      \* response.grounding, in iteration order
    args,           \* the arguments of the call
    tables,         \* analyze / nested: the table groundings; pdf: the table chunks
    cells,          \* analyze: the tableCell groundings found
    ti,             \* analyze: index of the table of the outer loop; nested: i
    tj,             \* nested: j
    report,         \* analyze: what is printed for each table
    table_chunk,    \* extract / markdown: table_chunk; pdf: table
    table_cells,    \* extract: the cells of that table
    max_row,
    max_col,
    df,             \* extract: the DataFrame
    k,              \* extract: index of the cell being written; markdown: row
    cells_data,     \* markdown: cells keyed by anchor, in insertion order
    markdown_lines, \* markdown: the lines built so far
    nested_pairs,   \* nested: the pairs reported so far
    grid,           \* pdf: the grid parsed from the table's HTML
    cell_text,      \* spreadsheet: the texts of one table keyed by cell id
    headers,        \* with_headers: the contents of the cells of row 0
    data_rows,      \* with_headers: one dict, header to content, for each row
    attempt,        \* handle_parsing_errors: attempt
    events,         \* the calls made to the client and to time.sleep, in order
    job_status,     \* the status of the parse job at the service
    parsed,         \* handle_split_errors: parsed
    response,       \* what the last call to the client gave: a value or an error
    stdout,         \* the kinds of message printed so far
    result,         \* what the function returned
    raised          \* the exception the function raised

vars == <<fn, pc, chunks, grounding, args, tables, cells, ti, tj, report,
          table_chunk, table_cells, max_row, max_col, df, k, cells_data,
          markdown_lines, nested_pairs, grid, cell_text, headers, data_rows,
          attempt, events,
          job_status, parsed, response, stdout, result, raised>>

-----------------------------------------------------------------------------
(* Bounds of the inputs. *)

\* rows and columns of a cell anchor are drawn from 0..MaxCoord
MaxCoord == 1
\* rowspan and colspan are drawn from 1..MaxSpan
MaxSpan == 2
\* pages are 0..MaxPage
MaxPage == 1
\* extract_nested_tables is run on up to MaxTables groundings
MaxTables == 3
\* analyze_table_structure is run on a table, a cell and up to MaxExtra more
MaxExtra == 2
\* get_pdf_cell is run on up to MaxChunks chunks,
MaxChunks == 3
\* with row and col drawn from 0..MaxArg
MaxArg == 2
\* and table_index from -MaxIndex..MaxIndex
MaxIndex == 4
\* handle_split_errors is run on documents of 1..MaxPageCount pages
MaxPageCount == 2
\* that the service splits into up to MaxSplits splits
MaxSplits == 2
\* parse_large_file_with_jobs polls up to MaxPolls times a job that has not ended
MaxPolls == 3
\* extract_table_with_headers is run on cells of rows 0..MaxHeaderRow
MaxHeaderRow == 2
\* and columns 0..MaxHeaderCol
MaxHeaderCol == 2

-----------------------------------------------------------------------------
(* Values. *)

\* the tolerance 0.01 of analyze_table_structure, in units of 1/6400
Tol == 64
Max(S) == CHOOSE x \in S : \A y \in S : y <= x

Range(s) == {s[n] : n \in DOMAIN s}

NoPosition == [chunk_id |-> "", row |-> 0, col |-> 0, rowspan |-> 1, colspan |-> 1]
NoChunk == [id |-> "", type |-> "", markdown |-> <<>>]

Pending == [kind |-> "pending"]
None == [kind |-> "None"]
NoError == [kind |-> "none"]

\* pandas' marker of a DataFrame entry that was never assigned
NaN == "NaN"

\* the box whose sides are given in steps of 25 units (1/256 of the page)
Box(l, t, r, b) == [left |-> l * 25, top |-> t * 25,
                    right |-> r * 25, bottom |-> b * 25]


-----------------------------------------------------------------------------
(* The groups of variables an operation leaves alone. *)

inputVars == <<fn, chunks, grounding, args>>
analyzeVars == <<cells, report>>
nestedVars == <<tj, nested_pairs>>
tableVars == <<tables, ti>>
extractVars == <<table_cells, df>>
pdfVars == <<grid, cell_text>>
gridVars == <<table_chunk, max_row, max_col, k>>
markdownVars == <<cells_data, markdown_lines>>
headerVars == <<headers, data_rows>>
remoteVars == <<attempt, events, job_status, parsed, response>>
\* all that the table scripts compute
documentVars ==
    <<analyzeVars, nestedVars, tableVars, extractVars, pdfVars, gridVars,
      markdownVars, headerVars>>

-----------------------------------------------------------------------------
(* extract_table_to_dataframe, handle_tables.py 59-115 *)

\* the chunks of every type, none left out
TableChunksOfAnyType(cs) == cs

\* line 66 (and 179, 262, 330; get_pdf_table_cell.py 19,
\* get_spreadsheet_cell.py 19): the table chunks
TableChunks(cs) == SelectSeq(cs, LAMBDA c : c.type = "table")

\* lines 77-81: the cells whose position names the chunk, in grounding order
CellsOfChunk(g, id) ==
    SelectSeq(g, LAMBDA x : /\ x.type = "tableCell"
                            /\ x.hasPos
                            /\ x.position.chunk_id = id)

\* lines 88-89: the dimensions of the DataFrame
ExtractMaxRow(tc) == Max({tc[n].position.row : n \in DOMAIN tc})
ExtractMaxCol(tc) == Max({tc[n].position.col : n \in DOMAIN tc})

\* lines 92-93: a DataFrame of max_row + 1 rows and max_col + 1 columns
EmptyFrame(mr, mc) == [p \in (0..mr) \X (0..mc) |-> NaN]

\* line 100
ExtractContent(pos) == "Cell R" \o ToString(pos.row) \o "C" \o ToString(pos.col)

\* lines 103-106: the coordinates one cell is written to
ExtractWritten(pos, mr, mc) ==
    {p \in (pos.row .. pos.row + pos.rowspan - 1)
            \X (pos.col .. pos.col + pos.colspan - 1) :
        p[1] <= mr /\ p[2] <= mc}

\* lines 96-106, one iteration of the loop over table_cells
ExtractWrite(d, cell, mr, mc) ==
    [p \in DOMAIN d |->
        IF p \in ExtractWritten(cell.position, mr, mc)
        THEN ExtractContent(cell.position)
        ELSE d[p]]

\* lines 63-74
ExtractStart ==
    /\ fn = "extract_table_to_dataframe"
    /\ pc = "start"
    /\ IF TableChunks(chunks) = <<>>
       THEN /\ stdout' = Append(stdout, "No tables found in document")
            /\ result' = None
            /\ pc' = "done"
            /\ UNCHANGED table_chunk
       ELSE /\ table_chunk' = TableChunks(chunks)[1]
            /\ stdout' = Append(stdout, "Processing table")
            /\ pc' = "cells"
            /\ UNCHANGED result
    /\ UNCHANGED <<inputVars, remoteVars, headerVars, pdfVars, analyzeVars, nestedVars, tableVars, extractVars,
                   max_row, max_col, k, markdownVars, raised>>

\* lines 76-85
ExtractCells ==
    /\ fn = "extract_table_to_dataframe"
    /\ pc = "cells"
    /\ table_cells' = CellsOfChunk(grounding, table_chunk.id)
    /\ IF table_cells' = <<>>
       THEN /\ stdout' = Append(stdout, "No cells found for table")
            /\ result' = None
            /\ pc' = "done"
       ELSE /\ pc' = "dims"
            /\ UNCHANGED <<stdout, result>>
    /\ UNCHANGED <<inputVars, remoteVars, headerVars, pdfVars, analyzeVars, nestedVars, tableVars, df, gridVars,
                   markdownVars, raised>>

\* lines 87-93
ExtractDims ==
    /\ fn = "extract_table_to_dataframe"
    /\ pc = "dims"
    /\ max_row' = ExtractMaxRow(table_cells)
    /\ max_col' = ExtractMaxCol(table_cells)
    /\ df' = EmptyFrame(max_row', max_col')
    /\ k' = 1
    /\ pc' = "fill"
    /\ UNCHANGED <<inputVars, remoteVars, headerVars, pdfVars, analyzeVars, nestedVars, tableVars, table_cells,
                   table_chunk, markdownVars, stdout, result, raised>>

\* lines 96-106, one cell
ExtractFill ==
    /\ fn = "extract_table_to_dataframe"
    /\ pc = "fill"
    /\ k <= Len(table_cells)
    /\ df' = ExtractWrite(df, table_cells[k], max_row, max_col)
    /\ k' = k + 1
    /\ UNCHANGED <<inputVars, remoteVars, headerVars, pdfVars, pc, analyzeVars, nestedVars, tableVars, table_cells,
                   table_chunk, max_row, max_col, markdownVars, stdout, result,
                   raised>>

\* lines 108-115
ExtractReturn ==
    /\ fn = "extract_table_to_dataframe"
    /\ pc = "fill"
    /\ k > Len(table_cells)
    /\ stdout' = stdout \o <<"Table as DataFrame", "Saved to extracted_table.csv">>
    /\ result' = [kind |-> "DataFrame", frame |-> df]
    /\ pc' = "done"
    /\ UNCHANGED <<inputVars, remoteVars, headerVars, pdfVars, analyzeVars, nestedVars, tableVars, extractVars,
                   gridVars, markdownVars, raised>>

-----------------------------------------------------------------------------
(* reconstruct_table_markdown, handle_tables.py 172-253 *)

\* whether a dict, kept as its entries in insertion order, has the key
HasKey(d, key) == \E n \in DOMAIN d : d[n].key = key

\* d[key]
Lookup(d, key) == d[CHOOSE n \in DOMAIN d : d[n].key = key].val

\* d[key] = val: a key the dict has keeps its place, a new key goes last
DictSet(d, key, val) ==
    IF HasKey(d, key)
    THEN [n \in DOMAIN d |-> IF d[n].key = key THEN [key |-> key, val |-> val]
                                                ELSE d[n]]
    ELSE Append(d, [key |-> key, val |-> val])

\* line 195
MarkdownContent(pos) == "Cell" \o ToString(pos.row) \o ToString(pos.col)

\* lines 191-196: the entry stored for one cell
CellEntry(g) ==
    [id |-> g.gid, rowspan |-> g.position.rowspan,
     colspan |-> g.position.colspan, content |-> MarkdownContent(g.position)]

\* lines 185-196: cells_data after the groundings g[1..n] have been visited
RECURSIVE CellsData(_, _, _)
CellsData(g, id, n) ==
    IF n = 0 THEN <<>>
    ELSE LET rest == CellsData(g, id, n - 1)
             x == g[n]
         IN IF x.type = "tableCell" /\ x.hasPos /\ x.position.chunk_id = id
            THEN DictSet(rest, <<x.position.row, x.position.col>>, CellEntry(x))
            ELSE rest

\* lines 203-204
MarkdownMaxRow(cd) == Max({cd[n].key[1] : n \in DOMAIN cd})
MarkdownMaxCol(cd) == Max({cd[n].key[2] : n \in DOMAIN cd})

\* lines 214-220: what an anchor coordinate shows
AnchorText(cell) ==
    cell.content
    \o (IF cell.colspan > 1
        THEN " (spans " \o ToString(cell.colspan) \o " cols)" ELSE "")
    \o (IF cell.rowspan > 1
        THEN " (spans " \o ToString(cell.rowspan) \o " rows)" ELSE "")

\* lines 226-229: some cell of cells_data covers (row, col) from another anchor
Covered(cd, row, col) ==
    \E n \in DOMAIN cd :
        /\ cd[n].key[1] <= row /\ row < cd[n].key[1] + cd[n].val.rowspan
        /\ cd[n].key[2] <= col /\ col < cd[n].key[2] + cd[n].val.colspan
        /\ (cd[n].key[1] # row \/ cd[n].key[2] # col)

\* lines 212-235: the entry appended to row_cells for (row, col)
RowCell(cd, row, col) ==
    IF HasKey(cd, <<row, col>>) THEN AnchorText(Lookup(cd, <<row, col>>))
    ELSE IF Covered(cd, row, col) THEN "^^"
    ELSE ""

\* row_cells of one row when the search of lines 225-231 goes on after the
\* first covering cell and marks the coordinate once for each
RowCellsEveryCover(cd, row, mc) ==
    LET covers(col) ==
            Cardinality({n \in DOMAIN cd :
                /\ cd[n].key[1] <= row /\ row < cd[n].key[1] + cd[n].val.rowspan
                /\ cd[n].key[2] <= col /\ col < cd[n].key[2] + cd[n].val.colspan
                /\ (cd[n].key[1] # row \/ cd[n].key[2] # col)})
        entries(col) ==
            IF HasKey(cd, <<row, col>>) \/ ~Covered(cd, row, col)
            THEN <<RowCell(cd, row, col)>>
            ELSE [n \in 1..covers(col) |-> "^^"]
        RECURSIVE upto(_)
        upto(n) == IF n = 0 THEN <<>> ELSE upto(n - 1) \o entries(n - 1)
    IN upto(mc + 1)

\* lines 210-235: row_cells of one row
RowCells(cd, row, mc) == [n \in 1..(mc + 1) |-> RowCell(cd, row, n - 1)]

\* sep.join(s)
RECURSIVE Join(_, _)
Join(s, sep) ==
    IF s = <<>> THEN ""
    ELSE IF Len(s) = 1 THEN s[1]
    ELSE s[1] \o sep \o Join(Tail(s), sep)

\* line 238
RowLine(cd, row, mc) ==
    [kind |-> "row", row |-> row, cells |-> RowCells(cd, row, mc),
     text |-> "| " \o Join(RowCells(cd, row, mc), " | ") \o " |"]

\* a separator of max_col columns, one short
SeparatorLineShort(mc) ==
    [kind |-> "separator", row |-> 0, cells |-> [n \in 1..mc |-> " --- "],
     text |-> "|" \o Join([n \in 1..mc |-> " --- "], "|") \o "|"]

\* line 242
SeparatorLine(mc) ==
    [kind |-> "separator", row |-> 0, cells |-> [n \in 1..(mc + 1) |-> " --- "],
     text |-> "|" \o Join([n \in 1..(mc + 1) |-> " --- "], "|") \o "|"]

\* lines 176-182
MarkdownStart ==
    /\ fn = "reconstruct_table_markdown"
    /\ pc = "start"
    /\ IF TableChunks(chunks) = <<>>
       THEN /\ stdout' = Append(stdout, "No table found")
            /\ result' = None
            /\ pc' = "done"
            /\ UNCHANGED table_chunk
       ELSE /\ table_chunk' = TableChunks(chunks)[1]
            /\ pc' = "cells"
            /\ UNCHANGED <<stdout, result>>
    /\ UNCHANGED <<inputVars, remoteVars, headerVars, pdfVars, analyzeVars, nestedVars, tableVars, extractVars,
                   max_row, max_col, k, markdownVars, raised>>

\* lines 184-200
MarkdownCells ==
    /\ fn = "reconstruct_table_markdown"
    /\ pc = "cells"
    /\ cells_data' = CellsData(grounding, table_chunk.id, Len(grounding))
    /\ IF cells_data' = <<>>
       THEN /\ stdout' = Append(stdout, "No cells found")
            /\ result' = None
            /\ pc' = "done"
       ELSE /\ pc' = "dims"
            /\ UNCHANGED <<stdout, result>>
    /\ UNCHANGED <<inputVars, remoteVars, headerVars, pdfVars, analyzeVars, nestedVars, tableVars, extractVars,
                   gridVars, markdown_lines, raised>>

\* lines 202-207
MarkdownDims ==
    /\ fn = "reconstruct_table_markdown"
    /\ pc = "dims"
    /\ max_row' = MarkdownMaxRow(cells_data)
    /\ max_col' = MarkdownMaxCol(cells_data)
    /\ markdown_lines' = <<>>
    /\ k' = 0
    /\ pc' = "rows"
    /\ UNCHANGED <<inputVars, remoteVars, headerVars, pdfVars, analyzeVars, nestedVars, tableVars, extractVars,
                   table_chunk, cells_data, stdout, result, raised>>

\* lines 209-243, one row
MarkdownRow ==
    /\ fn = "reconstruct_table_markdown"
    /\ pc = "rows"
    /\ k <= max_row
    /\ markdown_lines' =
          Append(markdown_lines, RowLine(cells_data, k, max_col))
          \o (IF k = 0 THEN <<SeparatorLine(max_col)>> ELSE <<>>)
    /\ k' = k + 1
    /\ UNCHANGED <<inputVars, remoteVars, headerVars, pdfVars, pc, analyzeVars, nestedVars, tableVars, extractVars,
                   table_chunk, max_row, max_col, cells_data, stdout, result,
                   raised>>

\* lines 245-253
MarkdownReturn ==
    /\ fn = "reconstruct_table_markdown"
    /\ pc = "rows"
    /\ k > max_row
    /\ stdout' = Append(stdout, "Reconstructed Markdown Table")
    /\ result' = [kind |-> "markdown",
                  text |-> Join([n \in DOMAIN markdown_lines |->
                                    markdown_lines[n].text], "\n")]
    /\ pc' = "done"
    /\ UNCHANGED <<inputVars, remoteVars, headerVars, pdfVars, analyzeVars, nestedVars, tableVars, extractVars,
                   gridVars, markdownVars, raised>>

-----------------------------------------------------------------------------
(* analyze_table_structure, handle_tables.py 12-57 *)

\* lines 22-26 (and 386-388): the groundings of one type, in grounding order
OfType(g, type) == SelectSeq(g, LAMBDA x : x.type = type)

\* the bounds test without the tolerance, as extract_nested_tables makes it
WithinBoundsExact(cell, table) ==
    /\ cell.box.left >= table.box.left
    /\ cell.box.right <= table.box.right
    /\ cell.box.top >= table.box.top
    /\ cell.box.bottom <= table.box.bottom

\* lines 41-44: the cell's box lies in the table's box, 0.01 allowed on each side
WithinBounds(cell, table) ==
    /\ cell.box.left >= table.box.left - Tol
    /\ cell.box.right <= table.box.right + Tol
    /\ cell.box.top >= table.box.top - Tol
    /\ cell.box.bottom <= table.box.bottom + Tol

\* lines 39-44: the test that puts a cell into table_cells
BelongsTo(cell, table) ==
    /\ cell.hasPos
    /\ cell.page = table.page
    /\ WithinBounds(cell, table)

\* lines 37-45
AnalyzeCells(cs, table) == SelectSeq(cs, LAMBDA c : BelongsTo(c, table))

\* lines 51-54
AnalyzeMaxRow(tc) ==
    Max({tc[n].position.row + tc[n].position.rowspan - 1 :
            n \in {m \in DOMAIN tc : tc[m].hasPos}})
AnalyzeMaxCol(tc) ==
    Max({tc[n].position.col + tc[n].position.colspan - 1 :
            n \in {m \in DOMAIN tc : tc[m].hasPos}})

\* lines 32-55: what is printed for one table
TableReport(table, tc) ==
    [table_id |-> table.gid,
     page |-> table.page,
     cells |-> [n \in DOMAIN tc |-> tc[n].gid],
     dimensions |-> IF tc # <<>>
                    THEN <<AnalyzeMaxRow(tc) + 1, AnalyzeMaxCol(tc) + 1>>
                    ELSE <<>>]

\* lines 16-28
AnalyzeStart ==
    /\ fn = "analyze_table_structure"
    /\ pc = "start"
    /\ tables' = OfType(grounding, "table")
    /\ cells' = OfType(grounding, "tableCell")
    /\ stdout' = Append(stdout, "Document contains tables")
    /\ ti' = 1
    /\ pc' = "tables"
    /\ UNCHANGED <<inputVars, remoteVars, headerVars, pdfVars, report, nestedVars, extractVars, gridVars,
                   markdownVars, result, raised>>

\* lines 31-55, one table
AnalyzeTable ==
    /\ fn = "analyze_table_structure"
    /\ pc = "tables"
    /\ ti <= Len(tables)
    /\ table_cells' = AnalyzeCells(cells, tables[ti])
    /\ IF table_cells' # <<>>
       THEN /\ max_row' = AnalyzeMaxRow(table_cells')
            /\ max_col' = AnalyzeMaxCol(table_cells')
       ELSE UNCHANGED <<max_row, max_col>>
    /\ report' = Append(report, TableReport(tables[ti], table_cells'))
    /\ ti' = ti + 1
    /\ UNCHANGED <<inputVars, remoteVars, headerVars, pdfVars, pc, tables, cells, nestedVars, df, table_chunk, k,
                   markdownVars, stdout, result, raised>>

\* line 57
AnalyzeReturn ==
    /\ fn = "analyze_table_structure"
    /\ pc = "tables"
    /\ ti > Len(tables)
    /\ result' = [kind |-> "response"]
    /\ pc' = "done"
    /\ UNCHANGED <<inputVars, remoteVars, headerVars, pdfVars, analyzeVars, nestedVars, tableVars, extractVars,
                   gridVars, markdownVars, stdout, raised>>

-----------------------------------------------------------------------------
(* extract_nested_tables, handle_tables.py 378-417 *)

\* lines 398-401 and 405-408: one box lies in the other, no tolerance
Inside(inner, outer) ==
    /\ inner.left >= outer.left
    /\ inner.right <= outer.right
    /\ inner.top >= outer.top
    /\ inner.bottom <= outer.bottom

\* lines 397-410: the pairs one comparison of (table1, table2) appends,
\* a pair being (the containing table, the nested table)
NestedTest(table1, table2) ==
    IF Inside(table2.box, table1.box) THEN << <<table1.gid, table2.gid>> >>
    ELSE IF Inside(table1.box, table2.box) THEN << <<table2.gid, table1.gid>> >>
    ELSE <<>>

\* lines 403 and 410
NestedMessage(pair) == "Table " \o pair[2] \o " is nested inside table " \o pair[1]

\* lines 382-391
NestedStart ==
    /\ fn = "extract_nested_tables"
    /\ pc = "start"
    /\ tables' = OfType(grounding, "table")
    /\ nested_pairs' = <<>>
    /\ ti' = 1
    /\ tj' = 1
    /\ pc' = "pairs"
    /\ UNCHANGED <<inputVars, remoteVars, headerVars, pdfVars, analyzeVars, extractVars, gridVars, markdownVars,
                   stdout, result, raised>>

\* lines 392-410, one iteration of the inner loop
NestedPair ==
    /\ fn = "extract_nested_tables"
    /\ pc = "pairs"
    /\ ti <= Len(tables)
    /\ LET found == IF ti >= tj THEN <<>> ELSE NestedTest(tables[ti], tables[tj])
       IN /\ nested_pairs' = nested_pairs \o found
          /\ stdout' = stdout \o [n \in DOMAIN found |-> NestedMessage(found[n])]
    /\ IF tj < Len(tables)
       THEN /\ tj' = tj + 1
            /\ UNCHANGED ti
       ELSE /\ tj' = 1
            /\ ti' = ti + 1
    /\ UNCHANGED <<inputVars, remoteVars, headerVars, pdfVars, pc, tables, analyzeVars, extractVars, gridVars,
                   markdownVars, result, raised>>

\* lines 412-417
NestedReturn ==
    /\ fn = "extract_nested_tables"
    /\ pc = "pairs"
    /\ ti > Len(tables)
    /\ stdout' = Append(stdout, IF nested_pairs # <<>>
                                THEN "Found nested table relationships"
                                ELSE "No nested tables found")
    /\ result' = [kind |-> "nested_pairs", pairs |-> nested_pairs]
    /\ pc' = "done"
    /\ UNCHANGED <<inputVars, remoteVars, headerVars, pdfVars, analyzeVars, nestedVars, tableVars, extractVars,
                   gridVars, markdownVars, raised>>

-----------------------------------------------------------------------------
(* get_pdf_cell, get_pdf_table_cell.py 15-38 *)

(* A chunk's markdown is its HTML as a sequence of tokens: an opening tag   *)
(* [tag |-> "td", ...], a closing tag [tag |-> "/td"], or a run of text     *)
(* [tag |-> "text", text |-> ...]; white space between tags is a text token *)
(* of its own.                                                              *)

Whitespace == {" ", "\n"}

\* the place of the first token with the tag, or 0
FirstTag(html, tag) ==
    IF \E n \in DOMAIN html : html[n].tag = tag
    THEN CHOOSE n \in DOMAIN html :
             html[n].tag = tag /\ \A m \in 1..(n - 1) : html[m].tag # tag
    ELSE 0

\* re.findall(r'<open[^>]*>(.*?)</open>', html, re.DOTALL), lines 27 and 30-32:
\* from each opening tag to the first closing tag after it, left to right
RECURSIVE FindAll(_, _)
FindAll(html, open) ==
    LET i == FirstTag(html, open)
        after == SubSeq(html, i + 1, Len(html))
        j == FirstTag(after, "/" \o open)
    IN IF i = 0 \/ j = 0 THEN <<>>
       ELSE <<SubSeq(after, 1, j - 1)>>
            \o FindAll(SubSeq(after, j + 1, Len(after)), open)

\* str.strip() of a sequence of text runs
RECURSIVE Strip(_)
Strip(texts) ==
    IF texts = <<>> THEN <<>>
    ELSE IF texts[1] \in Whitespace THEN Strip(Tail(texts))
    ELSE IF texts[Len(texts)] \in Whitespace
         THEN Strip(SubSeq(texts, 1, Len(texts) - 1))
    ELSE texts

\* line 33: re.sub(r'<[^>]+>', '', inner).strip()
CellText(inner) ==
    LET runs == SelectSeq(inner, LAMBDA t : t.tag = "text")
    IN Join(Strip([n \in DOMAIN runs |-> runs[n].text]), "")

\* the entries of one row with the columns counted from one
RowEntriesFromOne(r, row_html) ==
    LET tds == FindAll(row_html, "td")
    IN [c \in DOMAIN tds |-> [key |-> <<r, c>>, val |-> CellText(tds[c])]]

\* lines 30-33: the entries one row adds to the grid
RowEntries(r, row_html) ==
    LET tds == FindAll(row_html, "td")
    IN [c \in DOMAIN tds |-> [key |-> <<r, c - 1>>, val |-> CellText(tds[c])]]

\* lines 27-33: the grid of a table, keyed by (index of <tr>, index of <td>)
RECURSIVE RowsGrid(_, _)
RowsGrid(rows, n) ==
    IF n = 0 THEN <<>>
    ELSE RowsGrid(rows, n - 1) \o RowEntries(n - 1, rows[n])

ParseGrid(markdown) ==
    LET rows == FindAll(markdown, "tr") IN RowsGrid(rows, Len(rows))

\* tuples in Python's order
TupleLess(a, b) == a[1] < b[1] \/ (a[1] = b[1] /\ a[2] < b[2])

\* sorted(grid.keys()), line 36
RECURSIVE Sorted(_)
Sorted(S) ==
    IF S = {} THEN <<>>
    ELSE LET m == CHOOSE x \in S : \A y \in S \ {x} : TupleLess(x, y)
         IN <<m>> \o Sorted(S \ {m})

Keys(d) == {d[n].key : n \in DOMAIN d}

\* tables[table_index], line 24: a negative index counts from the end
ListIndex(n, index) == IF index < 0 THEN n + index + 1 ELSE index + 1

\* lines 17-24
PdfStart ==
    /\ fn = "get_pdf_cell"
    /\ pc = "start"
    /\ tables' = TableChunks(chunks)
    /\ IF tables' = <<>>
       THEN /\ raised' = [kind |-> "ValueError",
                          message |-> "No tables found in document"]
            /\ pc' = "done"
            /\ UNCHANGED table_chunk
       ELSE IF args.table_index >= Len(tables')
       THEN /\ raised' = [kind |-> "ValueError",
                          message |-> "Table index " \o ToString(args.table_index)
                                      \o " out of range ("
                                      \o ToString(Len(tables'))
                                      \o " tables found)"]
            /\ pc' = "done"
            /\ UNCHANGED table_chunk
       ELSE IF ListIndex(Len(tables'), args.table_index) \notin DOMAIN tables'
       THEN /\ raised' = [kind |-> "IndexError",
                          message |-> "list index out of range"]
            /\ pc' = "done"
            /\ UNCHANGED table_chunk
       ELSE /\ table_chunk' = tables'[ListIndex(Len(tables'), args.table_index)]
            /\ pc' = "grid"
            /\ UNCHANGED raised
    /\ UNCHANGED <<inputVars, remoteVars, headerVars, ti, analyzeVars, nestedVars, extractVars, max_row,
                   max_col, k, markdownVars, pdfVars, stdout, result>>

\* lines 26-33
PdfGrid ==
    /\ fn = "get_pdf_cell"
    /\ pc = "grid"
    /\ grid' = ParseGrid(table_chunk.markdown)
    /\ pc' = "lookup"
    /\ UNCHANGED <<inputVars, remoteVars, headerVars, tableVars, analyzeVars, nestedVars, extractVars,
                   gridVars, markdownVars, cell_text, stdout, result, raised>>

\* lines 35-38
PdfLookup ==
    /\ fn = "get_pdf_cell"
    /\ pc = "lookup"
    /\ IF ~HasKey(grid, <<args.row, args.col>>)
       THEN /\ raised' = [kind |-> "KeyError",
                          message |-> "No cell at (" \o ToString(args.row) \o ", "
                                      \o ToString(args.col) \o "). Available: ",
                          available |-> Sorted(Keys(grid))]
            /\ UNCHANGED result
       ELSE /\ result' = [kind |-> "str",
                          value |-> Lookup(grid, <<args.row, args.col>>)]
            /\ UNCHANGED raised
    /\ pc' = "done"
    /\ UNCHANGED <<inputVars, remoteVars, headerVars, tableVars, analyzeVars, nestedVars, extractVars,
                   gridVars, markdownVars, pdfVars, stdout>>

-----------------------------------------------------------------------------
(* get_spreadsheet_cell, get_spreadsheet_cell.py 15-40 *)

\* the place of the first <td ...> token that carries an id, or 0
FirstIdTd(html) ==
    IF \E n \in DOMAIN html : html[n].tag = "td" /\ html[n].id # ""
    THEN CHOOSE n \in DOMAIN html :
             /\ html[n].tag = "td" /\ html[n].id # ""
             /\ \A m \in 1..(n - 1) : ~(html[m].tag = "td" /\ html[m].id # "")
    ELSE 0

\* lines 26-31: re.finditer(r'<td[^>]*\bid=["\']([^"\']+)["\'][^>]*>(.*?)</td>'):
\* from each <td> with an id to the first </td> after it, left to right, the
\* id and the stripped text between them
RECURSIVE IdCells(_)
IdCells(html) ==
    LET i == FirstIdTd(html)
        after == SubSeq(html, i + 1, Len(html))
        j == FirstTag(after, "/td")
    IN IF i = 0 \/ j = 0 THEN <<>>
       ELSE <<[key |-> html[i].id, val |-> CellText(SubSeq(after, 1, j - 1))]>>
            \o IdCells(SubSeq(after, j + 1, Len(after)))

\* the dict with the first text of every id kept
RECURSIVE CellTextsFirstKept(_, _)
CellTextsFirstKept(entries, n) ==
    IF n = 0 THEN <<>>
    ELSE IF HasKey(CellTextsFirstKept(entries, n - 1), entries[n].key)
         THEN CellTextsFirstKept(entries, n - 1)
    ELSE DictSet(CellTextsFirstKept(entries, n - 1), entries[n].key, entries[n].val)

\* lines 25-31: cell_text[id] = text, for the first n matches
RECURSIVE CellTexts(_, _)
CellTexts(entries, n) ==
    IF n = 0 THEN <<>>
    ELSE DictSet(CellTexts(entries, n - 1), entries[n].key, entries[n].val)

\* line 38: re.finditer(r'<td[^>]*\bid=["\']([^"\']+)["\']'), the ids of the
\* <td> tokens of one table
TableIds(html) ==
    LET tds == SelectSeq(html, LAMBDA t : t.tag = "td" /\ t.id # "")
    IN [n \in DOMAIN tds |-> tds[n].id]

\* lines 36-39: available, after the first n tables
RECURSIVE Available(_, _)
Available(ts, n) ==
    IF n = 0 THEN <<>>
    ELSE Available(ts, n - 1) \o TableIds(ts[n].markdown)

\* the length of the slice of line 40
MaxListed == 10

\* the list without the slice
ListedInFull(available) == available

\* available[:10], line 40
Listed(available) ==
    SubSeq(available, 1,
           IF Len(available) < MaxListed THEN Len(available) ELSE MaxListed)

\* lines 16-21
SheetStart ==
    /\ fn = "get_spreadsheet_cell"
    /\ pc = "start"
    /\ tables' = TableChunks(chunks)
    /\ IF tables' = <<>>
       THEN /\ raised' = [kind |-> "ValueError",
                          message |-> "No tables found in spreadsheet"]
            /\ pc' = "done"
            /\ UNCHANGED ti
       ELSE /\ ti' = 1
            /\ pc' = "search"
            /\ UNCHANGED raised
    /\ UNCHANGED <<inputVars, remoteVars, headerVars, tj, analyzeVars, nested_pairs, extractVars, gridVars,
                   markdownVars, pdfVars, stdout, result>>

\* lines 24-34: one turn of the loop over the tables
SheetSearch ==
    /\ fn = "get_spreadsheet_cell"
    /\ pc = "search"
    /\ ti <= Len(tables)
    /\ LET entries == IdCells(tables[ti].markdown)
       IN cell_text' = CellTexts(entries, Len(entries))
    /\ IF HasKey(cell_text', args.cell_id)
       THEN /\ result' = [kind |-> "str", value |-> Lookup(cell_text', args.cell_id)]
            /\ pc' = "done"
            /\ UNCHANGED ti
       ELSE /\ ti' = ti + 1
            /\ UNCHANGED <<pc, result>>
    /\ UNCHANGED <<inputVars, remoteVars, headerVars, tables, tj, analyzeVars, nested_pairs, extractVars,
                   gridVars, markdownVars, grid, stdout, raised>>

\* lines 36-40: no table holds the id
SheetNotFound ==
    /\ fn = "get_spreadsheet_cell"
    /\ pc = "search"
    /\ ti > Len(tables)
    /\ raised' = [kind |-> "KeyError",
                  message |-> "Cell '" \o args.cell_id
                              \o "' not found. Available IDs: ",
                  available |-> Listed(Available(tables, Len(tables)))]
    /\ pc' = "done"
    /\ UNCHANGED <<inputVars, remoteVars, headerVars, tableVars, tj, analyzeVars, nested_pairs, extractVars,
                   gridVars, markdownVars, pdfVars, stdout, result>>

-----------------------------------------------------------------------------
(* extract_table_with_headers, handle_tables.py 255-321 *)

\* line 275
HeaderContent(pos) == "Cell_" \o ToString(pos.row) \o "_" \o ToString(pos.col)

\* lines 268-276: cells after the groundings g[1..n] have been visited
RECURSIVE HeaderCells(_, _, _)
HeaderCells(g, id, n) ==
    IF n = 0 THEN <<>>
    ELSE LET rest == HeaderCells(g, id, n - 1)
             x == g[n]
         IN IF x.type = "tableCell" /\ x.hasPos /\ x.position.chunk_id = id
            THEN DictSet(rest, <<x.position.row, x.position.col>>,
                         [id |-> x.gid, content |-> HeaderContent(x.position)])
            ELSE rest

\* line 280: the columns looked at for a header are 0..9
HeaderColumns == 10

\* line 293: the rows looked at for data are 1..99
DataRowsEnd == 100

\* lines 279-282: the contents of the cells of row 0 among the first n columns
RECURSIVE Headers(_, _)
Headers(cd, n) ==
    IF n = 0 THEN <<>>
    ELSE Headers(cd, n - 1)
         \o (IF HasKey(cd, <<0, n - 1>>)
             THEN <<Lookup(cd, <<0, n - 1>>).content>> ELSE <<>>)

\* lines 297-300: row_data once the first n headers have been enumerated;
\* the header at place j of the list is paired with column j - 1
RECURSIVE RowData(_, _, _, _)
RowData(cd, hs, row, n) ==
    IF n = 0 THEN <<>>
    ELSE IF HasKey(cd, <<row, n - 1>>)
         THEN DictSet(RowData(cd, hs, row, n - 1), hs[n],
                      Lookup(cd, <<row, n - 1>>).content)
    ELSE RowData(cd, hs, row, n - 1)

\* lines 262-265
HeadersStart ==
    /\ fn = "extract_table_with_headers"
    /\ pc = "start"
    /\ IF TableChunks(chunks) = <<>>
       THEN /\ stdout' = Append(stdout, "No table found")
            /\ result' = None
            /\ pc' = "done"
            /\ UNCHANGED table_chunk
       ELSE /\ table_chunk' = TableChunks(chunks)[1]
            /\ pc' = "cells"
            /\ UNCHANGED <<stdout, result>>
    /\ UNCHANGED <<inputVars, remoteVars, headerVars, pdfVars, analyzeVars,
                   nestedVars, tableVars, extractVars, max_row, max_col, k,
                   markdownVars, raised>>

\* lines 268-288
HeadersCells ==
    /\ fn = "extract_table_with_headers"
    /\ pc = "cells"
    /\ cells_data' = HeaderCells(grounding, table_chunk.id, Len(grounding))
    /\ headers' = Headers(cells_data', HeaderColumns)
    /\ IF headers' = <<>>
       THEN /\ stdout' = Append(stdout, "No headers found")
            /\ result' = None
            /\ pc' = "done"
            /\ UNCHANGED k
       ELSE /\ stdout' = Append(stdout, "Headers")
            /\ k' = 1
            /\ pc' = "rows"
            /\ UNCHANGED result
    /\ UNCHANGED <<inputVars, remoteVars, data_rows, pdfVars, analyzeVars,
                   nestedVars, tableVars, extractVars, table_chunk, max_row,
                   max_col, markdown_lines, raised>>

\* lines 293-304: one row that has data
HeadersRow ==
    /\ fn = "extract_table_with_headers"
    /\ pc = "rows"
    /\ k < DataRowsEnd
    /\ RowData(cells_data, headers, k, Len(headers)) # <<>>
    /\ data_rows' = Append(data_rows, RowData(cells_data, headers, k, Len(headers)))
    /\ k' = k + 1
    /\ UNCHANGED <<inputVars, remoteVars, headers, pdfVars, pc, analyzeVars,
                   nestedVars, tableVars, extractVars, table_chunk, max_row,
                   max_col, markdownVars, stdout, result, raised>>

\* lines 293-321: the loop ends at the first row without data, or after row 99
HeadersReturn ==
    /\ fn = "extract_table_with_headers"
    /\ pc = "rows"
    /\ k >= DataRowsEnd \/ RowData(cells_data, headers, k, Len(headers)) = <<>>
    /\ IF data_rows # <<>>
       THEN /\ stdout' = stdout \o <<"Extracted data rows", "Data as DataFrame",
                                     "Saved to table_data.json">>
            /\ result' = [kind |-> "DataFrame", rows |-> data_rows]
       ELSE /\ stdout' = Append(stdout, "Extracted data rows")
            /\ result' = None
    /\ pc' = "done"
    /\ UNCHANGED <<inputVars, remoteVars, headerVars, pdfVars, analyzeVars,
                   nestedVars, tableVars, extractVars, gridVars, markdownVars,
                   raised>>

-----------------------------------------------------------------------------
(* handle_parsing_errors, parse_document.py 133-177 *)

(* A call to the client that the function makes inside a try either        *)
(* returns or raises: one of the three classes handle_parsing_errors names, *)
(* RateLimitError, APITimeoutError and APIStatusError, or an exception of   *)
(* another class, for which APIConnectionError stands.  A call made outside *)
(* a try returns.                                                           *)

Call(op, outcome) == [op |-> op, outcome |-> outcome, seconds |-> 0]
Sleep(seconds) == [op |-> "sleep", outcome |-> "", seconds |-> seconds]

Error(kind) == [kind |-> kind]

\* lines 156, 162, 172: the classes the except clauses name
Handled == {"RateLimitError", "APITimeoutError", "APIStatusError"}

\* what client.parse of lines 145-148 can give: a response, a response with
\* failed pages, an error an except clause names, or one that none names
ParseOutcomes ==
    {"ok", "failed_pages"} \cup Handled \cup {"APIConnectionError"}

\* line 141
max_retries == 3

RECURSIVE Power(_, _)
Power(b, n) == IF n = 0 THEN 1 ELSE b * Power(b, n - 1)

\* line 158
wait_time(a) == Power(2, a) * 10

\* lines 135-141
ParsingStart ==
    /\ fn = "handle_parsing_errors"
    /\ pc = "start"
    /\ attempt' = 0
    /\ pc' = "loop"
    /\ UNCHANGED <<inputVars, documentVars, events, job_status, parsed, response,
                   stdout, result, raised>>

\* line 143: the next attempt, and line 176 when the loop has run out
ParsingLoop ==
    /\ fn = "handle_parsing_errors"
    /\ pc = "loop"
    /\ IF attempt < max_retries
       THEN /\ pc' = "try"
            /\ UNCHANGED raised
       ELSE /\ raised' = [kind |-> "Exception",
                          message |-> "Failed after " \o ToString(max_retries)
                                      \o " attempts"]
            /\ pc' = "done"
    /\ UNCHANGED <<inputVars, documentVars, remoteVars, stdout, result>>

\* lines 144-154: the body of try
ParsingTry ==
    /\ fn = "handle_parsing_errors"
    /\ pc = "try"
    /\ \E outcome \in ParseOutcomes :
          /\ events' = Append(events, Call("parse", outcome))
          /\ IF outcome \in {"ok", "failed_pages"}
             THEN /\ response' = [kind |-> "response", call |-> Len(events')]
                  /\ stdout' = IF outcome = "failed_pages"
                               THEN Append(stdout, "Warning: Failed pages")
                               ELSE stdout
                  /\ result' = response'
                  /\ pc' = "done"
             ELSE /\ response' = Error(outcome)
                  /\ pc' = "except"
                  /\ UNCHANGED <<stdout, result>>
    /\ UNCHANGED <<inputVars, documentVars, attempt, job_status, parsed, raised>>

\* lines 156-160
ParsingRateLimit ==
    /\ fn = "handle_parsing_errors"
    /\ pc = "except"
    /\ response.kind = "RateLimitError"
    /\ stdout' = stdout \o <<"Rate limit hit", "Waiting">>
    /\ events' = Append(events, Sleep(wait_time(attempt)))
    /\ attempt' = attempt + 1
    /\ pc' = "loop"
    /\ UNCHANGED <<inputVars, documentVars, job_status, parsed, response, result,
                   raised>>

\* the handler with the wait of the rate limit before it retries
ParsingTimeoutWaits ==
    /\ fn = "handle_parsing_errors"
    /\ pc = "except"
    /\ response.kind = "APITimeoutError"
    /\ IF attempt < max_retries - 1
       THEN /\ stdout' = stdout \o <<"Request timeout", "Retrying...">>
            /\ events' = Append(events, Sleep(wait_time(attempt)))
            /\ attempt' = attempt + 1
            /\ pc' = "loop"
            /\ UNCHANGED <<job_status, result>>
       ELSE /\ stdout' = stdout \o <<"Request timeout",
                                     "Using parse jobs for large file...">>
            /\ events' = Append(events, Call("parse_jobs.create", "ok"))
            /\ job_status' = "pending"
            /\ result' = [kind |-> "job", call |-> Len(events')]
            /\ pc' = "done"
            /\ UNCHANGED attempt
    /\ UNCHANGED <<inputVars, documentVars, parsed, response, raised>>

\* lines 162-170
ParsingTimeout ==
    /\ fn = "handle_parsing_errors"
    /\ pc = "except"
    /\ response.kind = "APITimeoutError"
    /\ IF attempt < max_retries - 1
       THEN /\ stdout' = stdout \o <<"Request timeout", "Retrying...">>
            /\ attempt' = attempt + 1
            /\ pc' = "loop"
            /\ UNCHANGED <<events, job_status, result>>
       ELSE /\ stdout' = stdout \o <<"Request timeout",
                                     "Using parse jobs for large file...">>
            /\ events' = Append(events, Call("parse_jobs.create", "ok"))
            /\ job_status' = "pending"
            /\ result' = [kind |-> "job", call |-> Len(events')]
            /\ pc' = "done"
            /\ UNCHANGED attempt
    /\ UNCHANGED <<inputVars, documentVars, parsed, response, raised>>

\* the handler going on to the next attempt and not raising
ParsingStatusRetries ==
    /\ fn = "handle_parsing_errors"
    /\ pc = "except"
    /\ response.kind = "APIStatusError"
    /\ stdout' = Append(stdout, "API error")
    /\ attempt' = attempt + 1
    /\ pc' = "loop"
    /\ UNCHANGED <<inputVars, documentVars, events, job_status, parsed, response,
                   result, raised>>

\* lines 172-174
ParsingStatus ==
    /\ fn = "handle_parsing_errors"
    /\ pc = "except"
    /\ response.kind = "APIStatusError"
    /\ stdout' = Append(stdout, "API error")
    /\ raised' = [kind |-> "APIStatusError", message |-> "raised by client.parse"]
    /\ pc' = "done"
    /\ UNCHANGED <<inputVars, documentVars, remoteVars, result>>

\* lines 144-174: no except clause names the class of the exception, which
\* leaves the function as it was raised
ParsingUncaught ==
    /\ fn = "handle_parsing_errors"
    /\ pc = "except"
    /\ response.kind \notin Handled
    /\ raised' = [kind |-> response.kind, message |-> "raised by client.parse"]
    /\ pc' = "done"
    /\ UNCHANGED <<inputVars, documentVars, remoteVars, stdout, result>>

-----------------------------------------------------------------------------
(* parse_large_file_with_jobs, parse_document.py 95-131 *)

\* line 105: the size in bytes above which a parse job is used
SizeLimit == 50000000

\* the statuses of a job that has not ended, and of one that has
Running == {"pending", "processing"}
Ended == {"completed", "failed", "cancelled"}

\* lines 97-113 and 128-130
LargeStart ==
    /\ fn = "parse_large_file_with_jobs"
    /\ pc = "start"
    /\ IF args.file_size > SizeLimit
       THEN /\ stdout' = stdout \o <<"File size", "Using parse jobs for large file...",
                                     "Job created">>
            /\ events' = Append(events, Call("parse_jobs.create", "ok"))
            /\ job_status' = "pending"
            /\ pc' = "poll"
            /\ UNCHANGED result
       ELSE /\ stdout' = Append(stdout, "File size")
            /\ events' = Append(events, Call("parse", "ok"))
            /\ result' = [kind |-> "response", call |-> Len(events')]
            /\ pc' = "done"
            /\ UNCHANGED job_status
    /\ UNCHANGED <<inputVars, documentVars, attempt, parsed, response, raised>>

\* the service works on the job: what the next parse_jobs.get of line 115
\* will find
JobProgress ==
    /\ fn = "parse_large_file_with_jobs"
    /\ job_status \in Running
    /\ job_status' \in (IF job_status = "pending"
                        THEN {"processing", "failed", "cancelled"}
                        ELSE Ended)
    /\ UNCHANGED <<inputVars, documentVars, pc, attempt, events, parsed, response,
                   stdout, result, raised>>

\* the poll that returns while the job is being processed
LargePollReturnsEarly ==
    /\ fn = "parse_large_file_with_jobs"
    /\ pc = "poll"
    /\ job_status \in {"completed", "failed"}
       \/ Cardinality({n \in DOMAIN events : events[n].op = "parse_jobs.get"})
              < MaxPolls
    /\ events' = Append(events, Call("parse_jobs.get", job_status))
    /\ response' = [kind |-> "status", status |-> job_status, call |-> Len(events')]
    /\ IF job_status \in {"completed", "processing"}
       THEN /\ stdout' = stdout \o <<"Status", "Job completed successfully!">>
            /\ result' = response'
            /\ pc' = "done"
       ELSE IF job_status = "failed"
       THEN /\ stdout' = stdout \o <<"Status", "Job failed">>
            /\ result' = None
            /\ pc' = "done"
       ELSE /\ stdout' = Append(stdout, "Status")
            /\ pc' = "sleep"
            /\ UNCHANGED result
    /\ UNCHANGED <<inputVars, documentVars, attempt, job_status, parsed, raised>>

\* lines 115-124: one poll of the job; a job that has not ended is polled up
\* to MaxPolls times
LargePoll ==
    /\ fn = "parse_large_file_with_jobs"
    /\ pc = "poll"
    /\ job_status \in {"completed", "failed"}
       \/ Cardinality({n \in DOMAIN events : events[n].op = "parse_jobs.get"})
              < MaxPolls
    /\ events' = Append(events, Call("parse_jobs.get", job_status))
    /\ response' = [kind |-> "status", status |-> job_status, call |-> Len(events')]
    /\ IF job_status = "completed"
       THEN /\ stdout' = stdout \o <<"Status", "Job completed successfully!">>
            /\ result' = response'
            /\ pc' = "done"
       ELSE IF job_status = "failed"
       THEN /\ stdout' = stdout \o <<"Status", "Job failed">>
            /\ result' = None
            /\ pc' = "done"
       ELSE /\ stdout' = Append(stdout, "Status")
            /\ pc' = "sleep"
            /\ UNCHANGED result
    /\ UNCHANGED <<inputVars, documentVars, attempt, job_status, parsed, raised>>

\* line 126, and back to line 114
LargeSleep ==
    /\ fn = "parse_large_file_with_jobs"
    /\ pc = "sleep"
    /\ events' = Append(events, Sleep(5))
    /\ pc' = "poll"
    /\ UNCHANGED <<inputVars, documentVars, attempt, job_status, parsed, response,
                   stdout, result, raised>>

-----------------------------------------------------------------------------
(* handle_split_errors, split_documents.py 315-358 *)

\* the errors a call to the client can raise; each is an Exception, which
\* line 349 catches
ClientErrors ==
    {"RateLimitError", "APITimeoutError", "APIStatusError", "APIConnectionError"}

\* the splits client.split can give for a document of n pages: up to
\* MaxSplits splits, each with some of the pages
SplitChoices(n) ==
    UNION {[1..m -> {[pages |-> ps] : ps \in (SUBSET (0..(n - 1))) \ {{}}}] :
              m \in 0..MaxSplits}

\* lines 339-344: the pages no split holds
Unclassified(page_count, splits) ==
    (0..(page_count - 1)) \ UNION {splits[n].pages : n \in DOMAIN splits}

\* lines 317-320
SplitParse ==
    /\ fn = "handle_split_errors"
    /\ pc = "start"
    /\ \E outcome \in {"ok"} \cup ClientErrors :
          /\ events' = Append(events, Call("parse", outcome))
          /\ IF outcome = "ok"
             THEN /\ \E n \in 1..MaxPageCount :
                        parsed' = [kind |-> "response", call |-> Len(events'),
                                   page_count |-> n]
                  /\ pc' = "split"
                  /\ UNCHANGED response
             ELSE /\ response' = Error(outcome)
                  /\ pc' = "except"
                  /\ UNCHANGED parsed
    /\ UNCHANGED <<inputVars, documentVars, attempt, job_status, stdout, result,
                   raised>>

\* lines 323-329
SplitCall ==
    /\ fn = "handle_split_errors"
    /\ pc = "split"
    /\ \E outcome \in {"ok"} \cup ClientErrors :
          /\ events' = Append(events, Call("split", outcome))
          /\ IF outcome = "ok"
             THEN /\ \E splits \in SplitChoices(parsed.page_count) :
                        response' = [kind |-> "split", call |-> Len(events'),
                                     splits |-> splits]
                  /\ pc' = "check"
             ELSE /\ response' = Error(outcome)
                  /\ pc' = "except"
    /\ UNCHANGED <<inputVars, documentVars, attempt, job_status, parsed, stdout,
                   result, raised>>

\* the check that returns the response whatever its splits
SplitCheckAlwaysReturns ==
    /\ fn = "handle_split_errors"
    /\ pc = "check"
    /\ stdout' =
          IF Unclassified(parsed.page_count, response.splits) # {}
          THEN Append(stdout, "Warning: Pages were not classified")
          ELSE stdout
    /\ result' = response
    /\ pc' = "done"
    /\ UNCHANGED <<inputVars, documentVars, remoteVars, raised>>

\* lines 331-347
SplitCheck ==
    /\ fn = "handle_split_errors"
    /\ pc = "check"
    /\ IF response.splits = <<>>
       THEN /\ stdout' =
                  stdout \o <<"Warning: No document splits found",
                              "The document might not match any of the specified types">>
            /\ result' = None
       ELSE /\ stdout' =
                  IF Unclassified(parsed.page_count, response.splits) # {}
                  THEN Append(stdout, "Warning: Pages were not classified")
                  ELSE stdout
            /\ result' = response
    /\ pc' = "done"
    /\ UNCHANGED <<inputVars, documentVars, remoteVars, raised>>

\* lines 349-358: the fallback
SplitFallback ==
    /\ fn = "handle_split_errors"
    /\ pc = "except"
    /\ stdout' = stdout \o <<"Split error", "Falling back to page-based splitting">>
    /\ events' = Append(events, Call("parse by page", "ok"))
    /\ result' = [kind |-> "response", call |-> Len(events')]
    /\ pc' = "done"
    /\ UNCHANGED <<inputVars, documentVars, attempt, job_status, parsed, response,
                   raised>>

-----------------------------------------------------------------------------
(* The parse responses and arguments the functions are run on. *)

TableG(gid, page, box) ==
    [gid |-> gid, type |-> "table", page |-> page, box |-> box,
     hasPos |-> FALSE, position |-> NoPosition]

CellG(page, box, hasPos, position) ==
    [gid |-> "", type |-> "tableCell", page |-> page, box |-> box,
     hasPos |-> hasPos, position |-> IF hasPos THEN position ELSE NoPosition]

TextG(page, box) ==
    [gid |-> "", type |-> "text", page |-> page, box |-> box,
     hasPos |-> FALSE, position |-> NoPosition]

Position(id, row, col, rowspan, colspan) ==
    [chunk_id |-> id, row |-> row, col |-> col,
     rowspan |-> rowspan, colspan |-> colspan]

\* the keys of response.grounding are distinct: an entry without one is
\* given its place in the mapping
Keyed(g) ==
    [n \in DOMAIN g |->
        IF g[n].gid = "" THEN [g[n] EXCEPT !.gid = "g" \o ToString(n)] ELSE g[n]]

SeqsUpTo(S, n) == UNION {[1..m -> S] : m \in 0..n}

NoArgs == [row |-> 0, col |-> 0, table_index |-> 0, cell_id |-> "", file_size |-> 0]

\* no function has run yet
Fresh ==
    /\ pc = "start"
    /\ tables = <<>> /\ cells = <<>> /\ ti = 0 /\ tj = 0 /\ report = <<>>
    /\ table_chunk = NoChunk /\ table_cells = <<>>
    /\ max_row = -1 /\ max_col = -1 /\ df = <<>> /\ k = 0
    /\ cells_data = <<>> /\ markdown_lines = <<>> /\ nested_pairs = <<>>
    /\ grid = <<>> /\ cell_text = <<>>
    /\ headers = <<>> /\ data_rows = <<>>
    /\ attempt = 0 /\ events = <<>> /\ job_status = "none"
    /\ parsed = Pending /\ response = Pending
    /\ stdout = <<>> /\ result = Pending /\ raised = NoError

(* Tables of up to two cells with spans, for the grid builders. *)

TextChunk == [id |-> "p1", type |-> "text", markdown |-> <<>>]
TableChunk(id) == [id |-> id, type |-> "table", markdown |-> <<>>]

InnerBox == Box(7, 7, 9, 9)
OuterBox == Box(4, 4, 12, 12)

GridPositions ==
    {Position("t1", r, c, rs, cs) :
        r \in 0..MaxCoord, c \in 0..MaxCoord, rs \in 1..MaxSpan, cs \in 1..MaxSpan}

GridCells ==
    {CellG(0, InnerBox, TRUE, p) : p \in GridPositions}
    \cup {CellG(0, InnerBox, TRUE,
                Position("t2", MaxCoord + 1, MaxCoord + 1, MaxSpan, MaxSpan)),
          CellG(0, InnerBox, FALSE, NoPosition)}

GridGroundings ==
    {Keyed(<<TableG("t1", 0, OuterBox)>> \o cs) : cs \in SeqsUpTo(GridCells, 2)}

GridFunctions ==
    {"analyze_table_structure", "extract_table_to_dataframe",
     "reconstruct_table_markdown"}

InitGrid ==
    /\ fn \in GridFunctions
    /\ \/ /\ chunks = <<TextChunk, TableChunk("t1"), TableChunk("t2")>>
          /\ grounding \in GridGroundings
       \/ /\ chunks \in {<<>>, <<TextChunk>>, <<TableChunk("t2"), TableChunk("t1")>>}
          /\ grounding \in {Keyed(<<TableG("t1", 0, OuterBox)>> \o cs) :
                               cs \in SeqsUpTo({CellG(0, InnerBox, TRUE, 
                                   Position("t1", 0, 0, 1, 1))}, 1)}
    /\ args = NoArgs
    /\ Fresh

NextGrid ==
    \/ AnalyzeStart \/ AnalyzeTable \/ AnalyzeReturn
    \/ ExtractStart \/ ExtractCells \/ ExtractDims \/ ExtractFill \/ ExtractReturn
    \/ MarkdownStart \/ MarkdownCells \/ MarkdownDims \/ MarkdownRow
    \/ MarkdownReturn

SpecGrid == InitGrid /\ [][NextGrid]_vars

(* Boxes around OuterBox, for the geometry of analyze_table_structure and  *)
(* extract_nested_tables.  An interval is (low, high) in steps: the one of  *)
(* OuterBox, one 3 steps inside it, and ones that leave it on one side by 2  *)
(* steps (50 units, less than Tol) or by 3 steps (75 units, more than Tol).  *)

Same == <<4, 12>>
Within == <<7, 9>>
LowNear == <<2, 12>>
LowFar == <<1, 12>>
HighNear == <<4, 14>>
HighFar == <<4, 15>>

Intervals == {Same, Within, LowNear, LowFar, HighNear, HighFar}

BoxOf(x, y) == Box(x[1], y[1], x[2], y[2])

Pages == 0..MaxPage

(* extract_nested_tables: up to MaxTables groundings, tables of every box   *)
(* over a choice of intervals and a cell.                                   *)

NestedGroundings ==
    {TableG("", p, BoxOf(x, y)) :
        x \in {Same, Within, LowNear, HighFar}, y \in {Same, Within}, p \in Pages}
    \cup {CellG(0, InnerBox, TRUE, Position("t1", 0, 0, 1, 1))}

InitNested ==
    /\ fn = "extract_nested_tables"
    /\ chunks = <<>>
    /\ grounding \in {Keyed(g) : g \in SeqsUpTo(NestedGroundings, MaxTables)}
    /\ args = NoArgs
    /\ Fresh

NextNested == NestedStart \/ NestedPair \/ NestedReturn

SpecNested == InitNested /\ [][NextNested]_vars

(* analyze_table_structure: a table, a cell of every box over Intervals,    *)
(* with and without a position, and up to MaxExtra more groundings.         *)

AnalyzeTables ==
    {TableG("", p, OuterBox) : p \in Pages} \cup {TableG("", 0, InnerBox)}

AnalyzeCellBoxes ==
    {CellG(p, BoxOf(x, y), h, Position("t1", 1, 0, 2, 1)) :
        x \in Intervals, y \in Intervals, p \in Pages, h \in BOOLEAN}

AnalyzeExtras ==
    {TableG("", 0, InnerBox),
     CellG(0, InnerBox, TRUE, Position("t1", 0, 1, 1, 2)),
     TextG(0, InnerBox)}

AnalyzeGroundings ==
    {Keyed(<<t, c>> \o e) :
        t \in AnalyzeTables, c \in AnalyzeCellBoxes,
        e \in SeqsUpTo(AnalyzeExtras, MaxExtra)}

InitAnalyze ==
    /\ fn = "analyze_table_structure"
    /\ chunks = <<>>
    /\ grounding \in AnalyzeGroundings
    /\ args = NoArgs
    /\ Fresh

NextAnalyze == AnalyzeStart \/ AnalyzeTable \/ AnalyzeReturn

SpecAnalyze == InitAnalyze /\ [][NextAnalyze]_vars

(* get_pdf_cell: up to MaxChunks chunks, a text chunk or one of four HTML   *)
(* tables, and the arguments row, col and table_index.                      *)

Open(tag) == [tag |-> tag, text |-> "", id |-> "", colspan |-> 1]
Close(tag) == [tag |-> "/" \o tag, text |-> "", id |-> "", colspan |-> 1]
Text(text) == [tag |-> "text", text |-> text, id |-> "", colspan |-> 1]

\* <td id="id" colspan="colspan">inner</td>
Td(id, colspan, inner) ==
    <<[tag |-> "td", text |-> "", id |-> id, colspan |-> colspan]>>
    \o inner \o <<Close("td")>>

RECURSIVE Concat(_)
Concat(ss) == IF ss = <<>> THEN <<>> ELSE ss[1] \o Concat(Tail(ss))

\* <tr>tds</tr>, followed by a line break
Tr(tds) == <<Open("tr")>> \o Concat(tds) \o <<Close("tr"), Text("\n")>>

HtmlTable(trs) == <<Open("table"), Text("\n")>> \o Concat(trs) \o <<Close("table")>>

NameAmountRows ==
    <<Tr(<<Td("A1", 1, <<Text("Name")>>), Td("B1", 1, <<Text("Amount")>>)>>),
      Tr(<<Td("A2", 1, <<Text("Alice")>>), Td("B2", 1, <<Text("100")>>)>>)>>

\* two rows of two cells
PlainTable == HtmlTable(NameAmountRows)

\* the same and a third row of one cell that spans both columns
TotalTable ==
    HtmlTable(NameAmountRows \o <<Tr(<<Td("A3", 2, <<Text("Total")>>)>>)>>)

\* one row of one cell, its text in a <b> element between white space
BoldTable ==
    HtmlTable(<<Tr(<<Td("A1", 1, <<Text(" "), Open("b"), Text("Net"), Close("b"),
                                   Text("\n")>>)>>)>>)

ColumnName == <<"A", "B">>

\* six rows of two cells, twelve ids
LongTable ==
    HtmlTable([r \in 1..6 |->
        Tr([c \in 1..2 |->
            Td(ColumnName[c] \o ToString(r), 1,
               <<Text("r" \o ToString(r) \o "c" \o ToString(c))>>)])])

PdfChunks ==
    {[id |-> "", type |-> "text", markdown |-> <<Text("Invoice")>>]}
    \cup {[id |-> "", type |-> "table", markdown |-> m] :
             m \in {PlainTable, TotalTable, BoldTable, LongTable}}

\* chunk ids are distinct
Identified(cs) == [n \in DOMAIN cs |-> [cs[n] EXCEPT !.id = "k" \o ToString(n)]]

InitPdf ==
    /\ fn = "get_pdf_cell"
    /\ chunks \in {Identified(cs) : cs \in SeqsUpTo(PdfChunks, MaxChunks)}
    /\ grounding = <<>>
    /\ args \in [row : 0..MaxArg, col : 0..MaxArg,
                 table_index : (-MaxIndex)..MaxIndex, cell_id : {""},
                 file_size : {0}]
    /\ Fresh

NextPdf == PdfStart \/ PdfGrid \/ PdfLookup

SpecPdf == InitPdf /\ [][NextPdf]_vars

(* get_spreadsheet_cell: up to MaxChunks chunks, a text chunk or an HTML    *)
(* table, and the cell id asked for.                                        *)

\* a cell without an id, and an id that two cells carry
LooseTable ==
    HtmlTable(<<Tr(<<Td("", 1, <<Text("Notes")>>), Td("D1", 1, <<Text("first")>>),
                    Td("D1", 1, <<Text("second")>>)>>)>>)

SheetChunks ==
    {[id |-> "", type |-> "text", markdown |-> <<Text("Summary")>>]}
    \cup {[id |-> "", type |-> "table", markdown |-> m] :
             m \in {PlainTable, TotalTable, LongTable, LooseTable}}

CellIds == {"A1", "A3", "B6", "D1", "Z9"}

InitSheet ==
    /\ fn = "get_spreadsheet_cell"
    /\ chunks \in {Identified(cs) : cs \in SeqsUpTo(SheetChunks, MaxChunks)}
    /\ grounding = <<>>
    /\ args \in [row : {0}, col : {0}, table_index : {0}, cell_id : CellIds,
                 file_size : {0}]
    /\ Fresh

NextSheet == SheetStart \/ SheetSearch \/ SheetNotFound

SpecSheet == InitSheet /\ [][NextSheet]_vars

-----------------------------------------------------------------------------
(* Claims about the grid builders, checked under SpecGrid. *)

\* the cells of the table a grid is built for, in input order
GridInput == CellsOfChunk(grounding, table_chunk.id)

\* every coordinate a cell occupies: its anchor and what its spans cover
Occupied(pos) ==
    (pos.row .. pos.row + pos.rowspan - 1) \X (pos.col .. pos.col + pos.colspan - 1)

\* the largest row and column any of the cells occupies
SpanMaxRow(cs) == Max({cs[n].position.row + cs[n].position.rowspan - 1 : n \in DOMAIN cs})
SpanMaxCol(cs) == Max({cs[n].position.col + cs[n].position.colspan - 1 : n \in DOMAIN cs})

ExtractBuilt == fn = "extract_table_to_dataframe" /\ pc = "done" /\ result # None
MarkdownBuilt == fn = "reconstruct_table_markdown" /\ pc = "done" /\ result # None
AnalyzeBuilt == fn = "analyze_table_structure" /\ pc = "done"

\* the groundings with these keys, in the order of the keys
ByKeys(keys) ==
    [n \in DOMAIN keys |->
        grounding[CHOOSE m \in DOMAIN grounding : grounding[m].gid = keys[n]]]

\* C1: each grid-building operation sizes the grid of a table that has cells
\* with max_row = max(row + rowspan - 1) and max_col = max(col + colspan - 1)
\* over the table's cells.
C1_GridSizedBySpans ==
    /\ ExtractBuilt =>
          /\ max_row = SpanMaxRow(GridInput)
          /\ max_col = SpanMaxCol(GridInput)
    /\ MarkdownBuilt =>
          /\ max_row = SpanMaxRow(GridInput)
          /\ max_col = SpanMaxCol(GridInput)
    /\ AnalyzeBuilt =>
          \A n \in DOMAIN report :
              report[n].cells # <<>> =>
                  report[n].dimensions =
                      <<SpanMaxRow(ByKeys(report[n].cells)) + 1,
                        SpanMaxCol(ByKeys(report[n].cells)) + 1>>

\* no coordinate is occupied by two of the cells
NonOverlapping(cs) ==
    \A a, b \in DOMAIN cs :
        a # b => Occupied(cs[a].position) \cap Occupied(cs[b].position) = {}

\* C2: when the spans of a table's cells do not overlap, the grid filled by
\* extract_table_to_dataframe holds, at every coordinate a cell occupies, that
\* cell's content.
C2_EveryCoveredCoordinateFilled ==
    (ExtractBuilt /\ NonOverlapping(GridInput)) =>
        \A n \in DOMAIN GridInput :
            \A p \in Occupied(GridInput[n].position) :
                /\ p \in DOMAIN result.frame
                /\ result.frame[p] = ExtractContent(GridInput[n].position)

\* the coordinates two distinct cells both occupy, each with the two cells
\* in input order
Overlaps(cs) ==
    {<<p, a, b>> \in (UNION {Occupied(cs[n].position) : n \in DOMAIN cs})
                      \X (DOMAIN cs) \X (DOMAIN cs) :
        /\ a < b
        /\ p \in Occupied(cs[a].position)
        /\ p \in Occupied(cs[b].position)}

\* the report of an overlapping span
OverlapMessage(p, id1, id2) ==
    "OverlappingSpan at (" \o ToString(p[1]) \o ", " \o ToString(p[2]) \o "): "
    \o id1 \o ", " \o id2

\* how often the run has reported the overlap: printed, or raised
OverlapReports(p, id1, id2) ==
    Cardinality({n \in DOMAIN stdout : stdout[n] = OverlapMessage(p, id1, id2)})
    + (IF raised.kind = "OverlappingSpan" THEN 1 ELSE 0)

\* C3: when two distinct cells of a table occupy the same coordinate, grid
\* building reports exactly one overlapping-span error for it, naming both
\* cells.
C3_OverlapReportedOnce ==
    (ExtractBuilt \/ MarkdownBuilt) =>
        \A o \in Overlaps(GridInput) :
            OverlapReports(o[1], GridInput[o[2]].gid, GridInput[o[3]].gid) = 1

\* the first cell, in input order, that occupies the coordinate
FirstWriter(cs, p) ==
    cs[CHOOSE n \in DOMAIN cs :
          /\ p \in Occupied(cs[n].position)
          /\ \A m \in 1..(n - 1) : p \notin Occupied(cs[m].position)]

\* what reconstruct_table_markdown shows of one cell at a coordinate it occupies
Shown(cell, p) ==
    IF p = <<cell.position.row, cell.position.col>>
    THEN AnchorText(CellEntry(cell)) ELSE "^^"

\* the row line of the markdown built
LineOfRow(r) ==
    markdown_lines[CHOOSE n \in DOMAIN markdown_lines :
                      markdown_lines[n].kind = "row" /\ markdown_lines[n].row = r]

\* C4: a coordinate two cells occupy holds, once the grid is built, what the
\* first of them in input order put there, in extract_table_to_dataframe and
\* in reconstruct_table_markdown.
C4_FirstWriterKept ==
    /\ ExtractBuilt =>
          \A o \in Overlaps(GridInput) :
              o[1] \in DOMAIN result.frame =>
                  result.frame[o[1]] =
                      ExtractContent(FirstWriter(GridInput, o[1]).position)
    /\ MarkdownBuilt =>
          \A o \in Overlaps(GridInput) :
              (o[1][1] <= max_row /\ o[1][2] <= max_col) =>
                  LineOfRow(o[1][1]).cells[o[1][2] + 1] =
                      Shown(FirstWriter(GridInput, o[1]), o[1])

-----------------------------------------------------------------------------
(* Claims about extract_nested_tables, checked under SpecNested. *)

NestedDone == fn = "extract_nested_tables" /\ pc = "done"

\* the table grounding with the key
TableOf(gid) == tables[CHOOSE n \in DOMAIN tables : tables[n].gid = gid]

\* C5: two table records with different ids and identical bounding boxes are
\* not reported as nested, in either direction.
C5_IdenticalBoxesNotNested ==
    NestedDone =>
        \A n \in DOMAIN nested_pairs :
            TableOf(nested_pairs[n][1]).box # TableOf(nested_pairs[n][2]).box

\* C6: the direction reported for two tables does not depend on the order of
\* the arguments: the test of (table2, table1) reports the pair that the test
\* of (table1, table2) has reported.
C6_NestingAntisymmetric ==
    NestedDone =>
        \A i, j \in DOMAIN tables :
            (i < j /\ NestedTest(tables[i], tables[j]) # <<>>) =>
                /\ NestedTest(tables[i], tables[j]) \in
                       {SubSeq(nested_pairs, n, n) : n \in DOMAIN nested_pairs}
                /\ NestedTest(tables[j], tables[i]) = NestedTest(tables[i], tables[j])

\* C7: two tables on different pages are never reported as nested: their
\* comparison fails with InvalidComparison.
C7_CrossPageNeverNested ==
    NestedDone =>
        /\ \A n \in DOMAIN nested_pairs :
               TableOf(nested_pairs[n][1]).page = TableOf(nested_pairs[n][2]).page
        /\ (\E i, j \in DOMAIN tables : i < j /\ tables[i].page # tables[j].page)
               => raised.kind = "InvalidComparison"

\* contains(outer, inner, 0.01): the test of the cell-to-table association,
\* 0.01 being 64 units
Contains(outer, inner) ==
    /\ inner.left >= outer.left - 64
    /\ inner.right <= outer.right + 64
    /\ inner.top >= outer.top - 64
    /\ inner.bottom <= outer.bottom + 64

Reported(pair) == \E n \in DOMAIN nested_pairs : nested_pairs[n] = pair

\* C9: the nesting check decides with contains(., ., 0.01): b is reported
\* nested inside a whenever a contains b and b does not contain a, and nothing
\* is reported for two tables neither of which contains the other (stated for
\* two tables of one page).
C9_NestingUsesTolerance ==
    NestedDone =>
        \A i, j \in DOMAIN tables :
            (i # j /\ tables[i].page = tables[j].page) =>
                LET a == tables[i]
                    b == tables[j]
                IN /\ (Contains(a.box, b.box) /\ ~Contains(b.box, a.box))
                          => Reported(<<a.gid, b.gid>>)
                   /\ (~Contains(a.box, b.box) /\ ~Contains(b.box, a.box))
                          => (~Reported(<<a.gid, b.gid>>) /\ ~Reported(<<b.gid, a.gid>>))

-----------------------------------------------------------------------------
(* Claims about analyze_table_structure, checked under SpecAnalyze. *)

\* the n-th table grounding and the tableCell groundings of the response
NthTable(n) == OfType(grounding, "table")[n]
CellGroundings == {g \in Range(grounding) : g.type = "tableCell"}

\* C8: a cell is listed for a table exactly when it carries a position, is on
\* the table's page, and its box leaves the table's box by no more than 0.01
\* (64 units) on any of the four sides.
C8_AssociationWithTolerance ==
    \A n \in DOMAIN report :
        \A g \in Range(grounding) :
            (g.gid \in Range(report[n].cells)) <=>
                /\ g.type = "tableCell"
                /\ g.hasPos
                /\ g.page = NthTable(n).page
                /\ g.box.left >= NthTable(n).box.left - 64
                /\ g.box.right <= NthTable(n).box.right + 64
                /\ g.box.top >= NthTable(n).box.top - 64
                /\ g.box.bottom <= NthTable(n).box.bottom + 64

\* a table has been given a cell that leaves its box on the left and at the
\* bottom, and a table has been refused a cell of its page that has a position
C8_Witness ==
    /\ fn = "analyze_table_structure"
    /\ pc = "done"
    /\ \E n \in DOMAIN report :
          \E g \in CellGroundings :
              /\ g.gid \in Range(report[n].cells)
              /\ g.box.left < NthTable(n).box.left
              /\ g.box.bottom > NthTable(n).box.bottom
    /\ \E n \in DOMAIN report :
          \E g \in CellGroundings :
              /\ g.gid \notin Range(report[n].cells)
              /\ g.hasPos
              /\ g.page = NthTable(n).page

-----------------------------------------------------------------------------
(* Claims about get_pdf_cell, checked under SpecPdf. *)

\* N, the number of table chunks of the response
TableCount == Len(TableChunks(chunks))

\* the text of an error that carries the requested index and N
OutOfRangeMessage(index, n) ==
    "Table index " \o ToString(index) \o " out of range (" \o ToString(n)
    \o " tables found)"

\* C10: for every table_index outside 0..N-1 get_pdf_cell fails with an error
\* that carries the requested index and N, and selects no table (for N = 0
\* the report that the document holds no tables counts as carrying N).
C10_IndexOutOfRangeFails ==
    (/\ fn = "get_pdf_cell"
     /\ pc # "start"
     /\ (args.table_index < 0 \/ args.table_index >= TableCount)) =>
        /\ table_chunk = NoChunk
        /\ result = Pending
        /\ IF TableCount = 0
           THEN raised.kind = "ValueError"
           ELSE /\ raised.kind = "ValueError"
                /\ raised.message = OutOfRangeMessage(args.table_index, TableCount)

\* the places of the table chunks among the chunks of the response
TablePlaces == {m \in DOMAIN chunks : chunks[m].type = "table"}

\* the coordinate asked for
Asked == <<args.row, args.col>>

\* C11: for 0 <= table_index < N get_pdf_cell reads the cell from the chunk of
\* type "table" that has exactly table_index table chunks before it in chunk
\* order: the grid is parsed from that chunk's markdown and a returned value is
\* that grid's entry; chunks of other types are not counted.
C11_TableChosenInChunkOrder ==
    (/\ fn = "get_pdf_cell"
     /\ pc # "start"
     /\ args.table_index >= 0
     /\ args.table_index < Cardinality(TablePlaces)) =>
        \E m \in TablePlaces :
            /\ Cardinality({i \in TablePlaces : i < m}) = args.table_index
            /\ table_chunk = chunks[m]
            /\ pc \in {"lookup", "done"} => grid = ParseGrid(chunks[m].markdown)
            /\ (pc = "done" /\ result # Pending) =>
                   /\ HasKey(ParseGrid(chunks[m].markdown), Asked)
                   /\ result.value = Lookup(ParseGrid(chunks[m].markdown), Asked)

\* a value has been returned from the second or a later table, a chunk that
\* is no table comes first, and another table holds a different value at the
\* coordinate
C11_Witness ==
    /\ fn = "get_pdf_cell"
    /\ pc = "done"
    /\ result # Pending
    /\ args.table_index >= 1
    /\ chunks[1].type # "table"
    /\ \E m \in TablePlaces :
          /\ HasKey(ParseGrid(chunks[m].markdown), Asked)
          /\ Lookup(ParseGrid(chunks[m].markdown), Asked) # result.value

\* C12: in the table of two rows of two cells and a third row of one cell
\* anchored at (2, 0) with colspan 2 and the text "Total", the lookup of row 2,
\* col 1 returns "Total".
C12_CoveredCoordinateReturnsAnchor ==
    (/\ fn = "get_pdf_cell"
     /\ pc = "done"
     /\ table_chunk.markdown = TotalTable
     /\ Asked = <<2, 1>>) =>
        result = [kind |-> "str", value |-> "Total"]

\* C13: once a table is chosen, get_pdf_cell returns the text of the <td> at
\* place col of the <tr> at place row when the table has one, and otherwise
\* raises the not-found error and returns nothing.
C13_FoundOrNotFound ==
    (/\ fn = "get_pdf_cell"
     /\ pc = "done"
     /\ table_chunk # NoChunk) =>
        LET rows == FindAll(table_chunk.markdown, "tr")
            present == /\ args.row + 1 \in DOMAIN rows
                       /\ args.col + 1 \in DOMAIN FindAll(rows[args.row + 1], "td")
        IN IF present
           THEN /\ raised = NoError
                /\ result = [kind |-> "str",
                             value |-> CellText(FindAll(rows[args.row + 1],
                                                        "td")[args.col + 1])]
           ELSE /\ result = Pending
                /\ raised.kind = "KeyError"

\* the not-found error has been raised for a coordinate whose left neighbour
\* is a cell of the table
C13_Witness ==
    /\ fn = "get_pdf_cell"
    /\ pc = "done"
    /\ raised.kind = "KeyError"
    /\ result = Pending
    /\ args.col >= 1
    /\ HasKey(grid, <<args.row, args.col - 1>>)

\* the text of an error that carries the coordinate asked for
NoCellMessage(row, col) ==
    "No cell at (" \o ToString(row) \o ", " \o ToString(col) \o "). Available: "

\* C15: the not-found error of get_pdf_cell carries the coordinate asked for
\* and a list of candidate coordinates that is no longer than the bound of ten
\* that get_spreadsheet_cell keeps, however many cells the table has.
C15_CandidateListBounded ==
    (fn = "get_pdf_cell" /\ raised.kind = "KeyError") =>
        /\ raised.message = NoCellMessage(args.row, args.col)
        /\ Len(raised.available) <= MaxListed

-----------------------------------------------------------------------------
(* Claims about get_spreadsheet_cell, checked under SpecSheet. *)

\* the tokens of the table chunks, in document order
TableTokens ==
    Concat([n \in DOMAIN chunks |->
               IF chunks[n].type = "table" THEN chunks[n].markdown ELSE <<>>])

\* the ids that the cells of the table chunks carry, in document order
DocumentIds ==
    LET tds == SelectSeq(TableTokens, LAMBDA t : t.tag = "td" /\ t.id # "")
    IN [n \in DOMAIN tds |-> tds[n].id]

\* C14: the error of get_spreadsheet_cell for an id no table holds lists at
\* most 10 identifiers; they are the first identifiers of the cells of the
\* table chunks in document order, so each occurs on a cell of a table chunk,
\* and when more than 10 exist the list is not the full list.
C14_AtMostTenIdsListed ==
    (fn = "get_spreadsheet_cell" /\ raised.kind = "KeyError") =>
        /\ Len(raised.available) <= 10
        /\ Len(raised.available) = IF Len(DocumentIds) > 10 THEN 10
                                   ELSE Len(DocumentIds)
        /\ \A n \in DOMAIN raised.available :
               raised.available[n] = DocumentIds[n]
        /\ Len(DocumentIds) > 10 => raised.available # DocumentIds

\* the error has been raised for a response whose tables carry more than 10
\* ids, and it lists 10 of them
C14_Witness ==
    /\ fn = "get_spreadsheet_cell"
    /\ pc = "done"
    /\ raised.kind = "KeyError"
    /\ Len(DocumentIds) > 10
    /\ Len(raised.available) = 10

-----------------------------------------------------------------------------
(* Claims about the rendering and the assignment of cells, checked under    *)
(* SpecGrid.                                                                *)

\* the places of the separator lines among the lines built
SeparatorPlaces ==
    {n \in DOMAIN markdown_lines : markdown_lines[n].kind = "separator"}

\* C16: once row 0 is rendered, and in the table returned, the lines of
\* reconstruct_table_markdown hold exactly one separator line; it is the
\* second line, right after the line of row 0 and before the line of row 1
\* (the last line when the table has one row), and it has max_col + 1
\* columns of " --- ".
C16_OneSeparatorAfterRowZero ==
    (/\ fn = "reconstruct_table_markdown"
     /\ (pc = "rows" /\ k >= 1) \/ MarkdownBuilt) =>
        /\ SeparatorPlaces = {2}
        /\ markdown_lines[1].kind = "row" /\ markdown_lines[1].row = 0
        /\ Len(markdown_lines[2].cells) = max_col + 1
        /\ markdown_lines[2].text =
               "|" \o Join([n \in 1..(max_col + 1) |-> " --- "], "|") \o "|"
        /\ \A n \in 3..Len(markdown_lines) :
               markdown_lines[n].kind = "row" /\ markdown_lines[n].row = n - 2
        /\ MarkdownBuilt => Len(markdown_lines) = max_row + 2

\* a table of two rows and two columns has been rendered
C16_Witness ==
    /\ MarkdownBuilt
    /\ max_row >= 1
    /\ max_col >= 1
    /\ Len(markdown_lines) = 3

\* the coordinates reconstruct_table_markdown renders
Rendered == (0..max_row) \X (0..max_col)

\* what the markdown built shows at a rendered coordinate
Entry(p) == LineOfRow(p[1]).cells[p[2] + 1]

Anchor(cell) == <<cell.position.row, cell.position.col>>

\* C17: in the table reconstruct_table_markdown returns, every rendered
\* coordinate that a cell covers from another anchor shows "^^" and not that
\* cell's content, and a cell's content is shown at its anchor only.
C17_CoveredShowsPlaceholder ==
    MarkdownBuilt =>
        \A n \in DOMAIN GridInput :
            \A p \in Rendered \ {Anchor(GridInput[n])} :
                /\ p \in Occupied(GridInput[n].position) => Entry(p) = "^^"
                /\ Entry(p) # AnchorText(CellEntry(GridInput[n]))

\* lines 214-222 for an occupied cell of one row and one column whose content
\* is the empty string
EmptyContentShown ==
    AnchorText([id |-> "", rowspan |-> 1, colspan |-> 1, content |-> ""])

\* the coordinates none of the cells occupies
Unoccupied(cs, p) == \A n \in DOMAIN cs : p \notin Occupied(cs[n].position)

\* C18: what the grid shows at a coordinate no cell occupies differs from
\* what it shows for an occupied cell whose content is the empty string, in
\* the markdown of reconstruct_table_markdown and in the DataFrame of
\* extract_table_to_dataframe.
C18_EmptyMarkerDistinct ==
    /\ MarkdownBuilt =>
          \A p \in Rendered :
              Unoccupied(GridInput, p) => Entry(p) # EmptyContentShown
    /\ ExtractBuilt =>
          \A p \in DOMAIN result.frame :
              Unoccupied(GridInput, p) => result.frame[p] # ""

\* C19: for a table without cells extract_table_to_dataframe and
\* reconstruct_table_markdown return a grid and not None, and do not raise.
C19_EmptyTableGivesGrid ==
    (/\ fn \in {"extract_table_to_dataframe", "reconstruct_table_markdown"}
     /\ pc = "done"
     /\ table_chunk # NoChunk
     /\ GridInput = <<>>) =>
        /\ result # None
        /\ raised = NoError

\* the table groundings whose box contains the box of the cell
Containing(g) ==
    {t \in Range(grounding) : t.type = "table" /\ WithinBounds(g, t)}

\* C20: a cell whose position names a table is assigned to that table and to
\* no other, and a cell without a position is assigned to the table whose box
\* contains it.
C20_LinkBeforeGeometry ==
    /\ AnalyzeBuilt =>
          \A n \in DOMAIN report :
              \A g \in CellGroundings :
                  /\ (g.hasPos /\ g.gid \in Range(report[n].cells)) =>
                         g.position.chunk_id = report[n].table_id
                  /\ (~g.hasPos /\ NthTable(n) \in Containing(g)) =>
                         g.gid \in Range(report[n].cells)
    /\ (fn = "extract_table_to_dataframe" /\ pc = "done"
        /\ table_chunk # NoChunk) =>
          \A g \in CellGroundings :
              /\ (g.hasPos /\ g \in Range(table_cells)) =>
                     g.position.chunk_id = table_chunk.id
              /\ (~g.hasPos /\ \E t \in Containing(g) : t.gid = table_chunk.id) =>
                     g \in Range(table_cells)

-----------------------------------------------------------------------------
(* Claims about the tables of analyze_table_structure, checked under        *)
(* SpecAnalyze.                                                             *)

\* the number of cells listed for the first n tables of the report
RECURSIVE CellCount(_)
CellCount(n) ==
    IF n = 0 THEN 0 ELSE CellCount(n - 1) + Len(report[n].cells)

\* C21: after analyze_table_structure has processed all tables no cell is in
\* the cell lists of two different tables, and the cell counts of the tables
\* sum to at most the number of cells.
C21_CellInAtMostOneTable ==
    AnalyzeBuilt =>
        /\ \A n, m \in DOMAIN report :
               n # m => Range(report[n].cells) \cap Range(report[m].cells) = {}
        /\ CellCount(Len(report)) <= Len(cells)

-----------------------------------------------------------------------------
(* A claim about the order of the tables, checked under SpecNested. *)

\* the tables enumerated in another order
Reordered(ts, f) == [n \in DOMAIN ts |-> ts[f[n]]]

\* lines 392-410: the set of pairs reported when the tables are enumerated as ts
NestedSet(ts) ==
    UNION {Range(NestedTest(ts[p[1]], ts[p[2]])) :
              p \in {q \in (DOMAIN ts) \X (DOMAIN ts) : q[1] < q[2]}}

\* lines 31-55: the reports printed when the tables are enumerated as ts
ReportSet(ts) == {TableReport(ts[n], AnalyzeCells(cells, ts[n])) : n \in DOMAIN ts}

\* C22: the nesting relationships extract_nested_tables reports, and the cells
\* and dimensions analyze_table_structure reports for each table, are the
\* ones every other order of enumeration of the tables gives.
C22_OrderIndependent ==
    /\ NestedDone =>
          \A f \in Permutations(DOMAIN tables) :
              NestedSet(Reordered(tables, f)) = Range(nested_pairs)
    /\ AnalyzeBuilt =>
          \A f \in Permutations(DOMAIN tables) :
              ReportSet(Reordered(tables, f)) = Range(report)

-----------------------------------------------------------------------------
(* A claim about the lookup of get_spreadsheet_cell, checked under          *)
(* SpecSheet.                                                               *)

\* the places in a table's cells with ids of the cells that carry the id
PlacesWithId(html, id) ==
    {n \in DOMAIN IdCells(html) : IdCells(html)[n].key = id}

\* the places of the table chunks that hold a cell with the id asked for
Holders ==
    {m \in TablePlaces : PlacesWithId(chunks[m].markdown, args.cell_id) # {}}

\* the first of them in chunk order
FirstHolder == CHOOSE m \in Holders : \A x \in Holders : m <= x

\* C23 as stated: the not-found error is raised exactly when no table chunk
\* holds a cell with the id, and otherwise the text of a cell with the id in
\* the first table chunk that holds one is returned.
C23_NotFoundIffNoTableHolds ==
    (fn = "get_spreadsheet_cell" /\ pc = "done") =>
        /\ raised.kind = "KeyError" <=> Holders = {}
        /\ Holders # {} =>
               /\ result # Pending
               /\ \E n \in PlacesWithId(chunks[FirstHolder].markdown, args.cell_id) :
                      result.value = IdCells(chunks[FirstHolder].markdown)[n].val

\* C23, amended: with no table chunk at all get_spreadsheet_cell raises
\* ValueError; with table chunks none of which holds a cell with the id it
\* raises the not-found KeyError; otherwise it returns the text of the last
\* cell with the id in the first table chunk, in chunk order, that holds one.
C23_FirstTableWithId ==
    (fn = "get_spreadsheet_cell" /\ pc = "done") =>
        IF TablePlaces = {}
        THEN /\ result = Pending
             /\ raised = [kind |-> "ValueError",
                          message |-> "No tables found in spreadsheet"]
        ELSE IF Holders = {}
        THEN /\ result = Pending
             /\ raised.kind = "KeyError"
        ELSE /\ raised = NoError
             /\ LET html == chunks[FirstHolder].markdown
                    last == Max(PlacesWithId(html, args.cell_id))
                IN result = [kind |-> "str", value |-> IdCells(html)[last].val]

\* a text has been returned from a table that is not the first table chunk,
\* and a later table chunk holds another text under the id
C23_Witness ==
    /\ fn = "get_spreadsheet_cell"
    /\ pc = "done"
    /\ result # Pending
    /\ \E m \in TablePlaces : m < FirstHolder
    /\ \E m \in Holders :
          /\ m > FirstHolder
          /\ \A n \in PlacesWithId(chunks[m].markdown, args.cell_id) :
                 IdCells(chunks[m].markdown)[n].val # result.value

-----------------------------------------------------------------------------
(* The runs of handle_parsing_errors and of handle_split_errors. *)

InitErrors ==
    /\ fn \in {"handle_parsing_errors", "handle_split_errors"}
    /\ chunks = <<>>
    /\ grounding = <<>>
    /\ args = NoArgs
    /\ Fresh

NextErrors ==
    \/ ParsingStart \/ ParsingLoop \/ ParsingTry
    \/ ParsingRateLimit \/ ParsingTimeout \/ ParsingStatus \/ ParsingUncaught
    \/ SplitParse \/ SplitCall \/ SplitCheck \/ SplitFallback

SpecErrors == InitErrors /\ [][NextErrors]_vars

\* the same with every step taken that can be taken: the program runs on,
\* client calls and time.sleep return
SpecErrorsFair == SpecErrors /\ WF_vars(NextErrors)

-----------------------------------------------------------------------------
(* Claims about handle_parsing_errors and handle_split_errors, checked      *)
(* under SpecErrors and SpecErrorsFair.                                     *)

\* the places of the calls of an operation among the events
CallsOf(op) == {n \in DOMAIN events : events[n].op = op}

\* the places of the parse calls that returned a response
Successes ==
    {n \in CallsOf("parse") : events[n].outcome \in {"ok", "failed_pages"}}

\* the 0-based attempt in which the parse call at place n was made
AttemptOf(n) == Cardinality({m \in CallsOf("parse") : m < n})

ParsingDone == fn = "handle_parsing_errors" /\ pc = "done"

FailedAfterAll ==
    [kind |-> "Exception", message |-> "Failed after 3 attempts"]

\* the four ways handle_parsing_errors ends
ReturnsFirstSuccess ==
    /\ raised = NoError
    /\ result.kind = "response"
    /\ Successes = {result.call}
    /\ result.call = Len(events)
ReturnsJob ==
    /\ raised = NoError
    /\ result.kind = "job"
ReraisesStatusError ==
    /\ result = Pending
    /\ raised.kind = "APIStatusError"
    /\ events[Len(events)] = Call("parse", "APIStatusError")
RaisesFailedAfterAll ==
    /\ result = Pending
    /\ raised = FailedAfterAll
    /\ Successes = {}

\* the fifth way: an exception no except clause names leaves the function
PropagatesUncaught ==
    /\ result = Pending
    /\ raised.kind \notin Handled \cup {"none", "Exception"}
    /\ events[Len(events)] = Call("parse", raised.kind)

\* what C24 says of every state
ParsingOutcomes ==
    fn = "handle_parsing_errors" =>
        /\ Cardinality(CallsOf("parse")) <= 3
        /\ \A n \in CallsOf("parse") :
               events[n].outcome = "APIStatusError" => n = Len(events)
        /\ pc # "done" => result = Pending /\ raised = NoError
        /\ pc = "done" =>
               Cardinality({o \in {"response", "job", "status", "failed"} :
                   \/ o = "response" /\ ReturnsFirstSuccess
                   \/ o = "job" /\ ReturnsJob
                   \/ o = "status" /\ ReraisesStatusError
                   \/ o = "failed" /\ RaisesFailedAfterAll}) = 1

ParsingFiveOutcomes ==
    fn = "handle_parsing_errors" =>
        /\ Cardinality(CallsOf("parse")) <= 3
        /\ \A n \in CallsOf("parse") :
               events[n].outcome \in {"APIStatusError", "APIConnectionError"}
                   => n = Len(events)
        /\ pc # "done" => result = Pending /\ raised = NoError
        /\ pc = "done" =>
               Cardinality({o \in {"response", "job", "status", "failed", "other"} :
                   \/ o = "response" /\ ReturnsFirstSuccess
                   \/ o = "job" /\ ReturnsJob
                   \/ o = "status" /\ ReraisesStatusError
                   \/ o = "failed" /\ RaisesFailedAfterAll
                   \/ o = "other" /\ PropagatesUncaught}) = 1

C25_TimeoutRetriesThenJob ==
    fn = "handle_parsing_errors" =>
        /\ \A n \in CallsOf("parse") :
               events[n].outcome = "APITimeoutError" =>
                   IF AttemptOf(n) < 2
                   THEN /\ n < Len(events) => events[n + 1].op = "parse"
                        /\ pc = "done" => n < Len(events)
                   ELSE pc = "done" =>
                            /\ Len(events) = n + 1
                            /\ events[n + 1].op = "parse_jobs.create"
                            /\ result = [kind |-> "job", call |-> n + 1]
                            /\ raised = NoError
        /\ \A n \in CallsOf("parse_jobs.create") :
               /\ n > 1
               /\ events[n - 1] = Call("parse", "APITimeoutError")
               /\ AttemptOf(n - 1) = 2

\* a job has been returned after a wait for the rate limit and two timeouts
C25_Witness ==
    /\ ParsingDone
    /\ result.kind = "job"
    /\ CallsOf("sleep") # {}
    /\ Cardinality({n \in CallsOf("parse") :
                       events[n].outcome = "APITimeoutError"}) = 2

\* C26: every wait of handle_parsing_errors follows a RateLimitError, lasts
\* 10 * 2^k seconds after the error of attempt k, and is followed by another
\* parse call: the function does not end on a wait.
C26_EveryWaitThenRetry ==
    fn = "handle_parsing_errors" =>
        \A n \in CallsOf("sleep") :
            /\ n > 1
            /\ events[n - 1] = Call("parse", "RateLimitError")
            /\ events[n].seconds = 10 * Power(2, AttemptOf(n - 1))
            /\ n < Len(events) => events[n + 1].op = "parse"
            /\ pc = "done" => n < Len(events)

SplitDone == fn = "handle_split_errors" /\ pc = "done"

\* the places of the calls in the try that raised
RaisedInTry ==
    {n \in CallsOf("parse") \cup CallsOf("split") :
        events[n].outcome \in ClientErrors}

\* C28: when the parse call or the split call of handle_split_errors raises,
\* the function makes exactly one fallback parse call, the last call it
\* makes, and returns its response; when neither raises it makes no fallback
\* call and returns the split response when that has a split and None when
\* it has none.
C28_FallbackOnlyAfterError ==
    /\ fn = "handle_split_errors" =>
          /\ Cardinality(CallsOf("parse by page")) <= 1
          /\ CallsOf("parse by page") # {} => RaisedInTry # {}
    /\ SplitDone =>
          /\ raised = NoError
          /\ IF RaisedInTry # {}
             THEN /\ CallsOf("parse by page") = {Len(events)}
                  /\ result = [kind |-> "response", call |-> Len(events)]
             ELSE /\ CallsOf("parse by page") = {}
                  /\ CallsOf("split") = {Len(events)}
                  /\ response.call = Len(events)
                  /\ IF response.splits # <<>>
                     THEN result = response
                     ELSE result = None

\* the split call has raised after a parse that returned, and the response of
\* the fallback has been returned
C28_Witness ==
    /\ SplitDone
    /\ \E n \in CallsOf("split") : events[n].outcome \in ClientErrors
    /\ result.kind = "response"

-----------------------------------------------------------------------------
(* The runs of parse_large_file_with_jobs, on files of the size of the      *)
(* limit, one byte less and one byte more.  The function takes every step   *)
(* it can take; the service may or may not work on the job.                 *)

FileSizes == {SizeLimit - 1, SizeLimit, SizeLimit + 1}

InitJobs ==
    /\ fn = "parse_large_file_with_jobs"
    /\ chunks = <<>>
    /\ grounding = <<>>
    /\ args \in [row : {0}, col : {0}, table_index : {0}, cell_id : {""},
                 file_size : FileSizes]
    /\ Fresh

NextJobs == LargeStart \/ JobProgress \/ LargePoll \/ LargeSleep

SpecJobs ==
    /\ InitJobs
    /\ [][NextJobs]_vars
    /\ WF_vars(LargeStart \/ LargePoll \/ LargeSleep)

\* the polls made so far
Polls == CallsOf("parse_jobs.get")

\* what C27 says of every state of a run on a file above the limit
JobPolledUntilEnd ==
    (fn = "parse_large_file_with_jobs" /\ args.file_size > 50000000
     /\ pc # "start") =>
        /\ CallsOf("parse_jobs.create") = {1}
        /\ CallsOf("parse") = {}
        /\ raised = NoError
        /\ pc = "done" <=> result # Pending
        /\ pc = "done" =>
               /\ Len(events) \in Polls
               /\ \/ /\ events[Len(events)].outcome = "completed"
                     /\ result = [kind |-> "status", status |-> "completed",
                                  call |-> Len(events)]
                  \/ /\ events[Len(events)].outcome = "failed"
                     /\ result = None
        /\ \A n \in Polls :
               events[n].outcome \notin {"completed", "failed"} =>
                   /\ n = Len(events) => pc = "sleep"
                   /\ n < Len(events) => events[n + 1] = Sleep(5)
                   /\ n + 1 < Len(events) => n + 2 \in Polls
        /\ \A n \in Polls : events[n].outcome \in {"completed", "failed"} =>
               n = Len(events)

\* C27: for a file of more than 50,000,000 bytes parse_large_file_with_jobs
\* creates exactly one parse job and polls it; it returns only on a poll that
\* finds 'completed' (it returns that status) or 'failed' (it returns None),
\* after every other poll it sleeps 5 seconds and polls again, and once the
\* job is 'completed' or 'failed' the function returns.
C27_PollsUntilCompletedOrFailed ==
    /\ []JobPolledUntilEnd
    /\ (fn = "parse_large_file_with_jobs" /\ job_status \in {"completed", "failed"})
           ~> (pc = "done")

\* the status 'completed' has been returned by the third poll, after two
\* sleeps
C27_Witness ==
    /\ fn = "parse_large_file_with_jobs"
    /\ pc = "done"
    /\ result # None
    /\ Cardinality(Polls) = 3
    /\ Cardinality(CallsOf("sleep")) = 2

-----------------------------------------------------------------------------
(* The runs of extract_table_with_headers: a table with a cell at each of a *)
(* set of coordinates, the colspan of a cell reaching to the next cell of   *)
(* its row.                                                                 *)

HeaderCoords == (0..MaxHeaderRow) \X (0..MaxHeaderCol)

\* the columns from the cell at p to the next cell of its row among ps
SpanToNext(ps, p) ==
    LET later == {q[2] : q \in {x \in ps : x[1] = p[1] /\ x[2] > p[2]}}
    IN IF later = {} THEN MaxHeaderCol + 1 - p[2]
       ELSE (CHOOSE c \in later : \A d \in later : c <= d) - p[2]

\* the cells at the coordinates ps, row by row
CellsAt(ps) ==
    LET order == Sorted(ps)
    IN [n \in DOMAIN order |->
           CellG(0, InnerBox, TRUE,
                 Position("t1", order[n][1], order[n][2], 1,
                          SpanToNext(ps, order[n])))]

InitHeaders ==
    /\ fn = "extract_table_with_headers"
    /\ \/ /\ chunks = <<TextChunk, TableChunk("t1"), TableChunk("t2")>>
          /\ grounding \in {Keyed(<<TableG("t1", 0, OuterBox)>> \o CellsAt(ps)) :
                               ps \in SUBSET HeaderCoords}
       \/ /\ chunks = <<TextChunk>>
          /\ grounding = <<>>
    /\ args = NoArgs
    /\ Fresh

NextHeaders == HeadersStart \/ HeadersCells \/ HeadersRow \/ HeadersReturn

SpecHeaders == InitHeaders /\ [][NextHeaders]_vars

HeadersBuilt ==
    fn = "extract_table_with_headers" /\ pc = "done" /\ result # None

\* the cell of the table at a coordinate
CellAt(row, col) ==
    CHOOSE g \in CellGroundings :
        g.hasPos /\ g.position.row = row /\ g.position.col = col

HasCellAt(row, col) ==
    \E g \in CellGroundings :
        g.hasPos /\ g.position.row = row /\ g.position.col = col

\* C29: every value extract_table_with_headers stores under a header in the
\* data row of grid row r is the content of the cell at (r, c), c being the
\* column of the cell of row 0 whose content the header is.
C29_ValueFromHeaderColumn ==
    HeadersBuilt =>
        \A r \in DOMAIN result.rows :
            \A n \in DOMAIN result.rows[r] :
                \E c \in 0..MaxHeaderCol :
                    /\ HasCellAt(0, c) /\ HasCellAt(r, c)
                    /\ result.rows[r][n].key = HeaderContent(CellAt(0, c).position)
                    /\ result.rows[r][n].val = HeaderContent(CellAt(r, c).position)

-----------------------------------------------------------------------------
(* The width of the rows of reconstruct_table_markdown, checked under SpecGrid. *)

\* the cells of the table, other than one anchored there, that cover p
Covering(p) ==
    {g \in CellGroundings :
        /\ g.hasPos /\ g.position.chunk_id = table_chunk.id
        /\ p \in Occupied(g.position)
        /\ p # <<g.position.row, g.position.col>>}

\* the three kinds of entry a row line has
EntryKinds(p) ==
    IF HasKey(cells_data, p) THEN {AnchorText(Lookup(cells_data, p))}
    ELSE IF Covering(p) # {} THEN {"^^"}
    ELSE {""}

\* C30: every row line of reconstruct_table_markdown has exactly max_col + 1
\* entries, the entry of each coordinate of the row being its content, the
\* placeholder or the empty string, whatever the number of spanned cells that
\* cover the coordinate.
C30_OneEntryPerCoordinate ==
    MarkdownBuilt =>
        \A r \in 0..max_row :
            /\ Len(LineOfRow(r).cells) = max_col + 1
            /\ \A c \in 0..max_col :
                  LineOfRow(r).cells[c + 1] \in EntryKinds(<<r, c>>)

C30_Witness ==
    /\ MarkdownBuilt
    /\ \E p \in Rendered :
          /\ ~HasKey(cells_data, p)
          /\ Cardinality(Covering(p)) > 1
          /\ Len(LineOfRow(p[1]).cells) = max_col + 1

=============================================================================
